---- MODULE Spec2Model ----
(***************************************************************************)
(* A model of we32dis: the WE32000 COFF container parser (coff.rs) and the *)
(* WE32100 instruction decoder (decode.rs).                                *)
(*                                                                         *)
(* A buffer is a sequence of bytes (0..255); cursor positions are 0-based  *)
(* as in std::io::Cursor.  Spec is the container parser, DecSpec the       *)
(* instruction decoder.                                                    *)
(***************************************************************************)
EXTENDS Integers, Sequences, FiniteSets, TLC

VARIABLES
    buf,          \* the input buffer handed to FileContainer::read
    pc,           \* the region FileContainer::read is about to parse
    pos,          \* cursor position (0-based)
    header,       \* <<>> or <<FileHeader>>
    opt_header,   \* Option<OptionalHeader>: <<>> is None, <<h>> is Some(h)
    sections,     \* Vec<Section>
    symbols,      \* Vec<SymbolTableEntry>
    sym_i,        \* loop counter of read_symbol_table
    is_aux,       \* read_symbol_table carry: next record is an auxiliary
    aux_index,    \* read_symbol_table carry: auxiliaries still expected (u8)
    sclass,       \* read_symbol_table carry: storage class of the parent
    strings,      \* <<>> or <<StringTable>>
    result,       \* "None" while reading, then Ok / a CoffError / Panic
    container,    \* <<>> or <<FileContainer>>: what read returned
    call,         \* the last call made on the returned container
    stream,       \* the instruction bytes the decoder's cursor runs over
    dpos,         \* the decoder's cursor position (0-based)
    dstart,       \* the cursor position before the last decode_instruction
    ir,           \* Decoder.ir, the instruction record
    dresult       \* "None", or what the last decode_instruction returned

coffvars == <<buf, pc, pos, header, opt_header, sections, symbols, sym_i,
              is_aux, aux_index, sclass, strings, result, container, call>>

decvars == <<stream, dpos, dstart, ir, dresult>>

----------------------------------------------------------------------------
(* Program constants *)

MAGIC_WE32K == 368
MAGIC_WE32K_TV == 369
FILE_HEADER_SIZE == 20
SYM_NAME_LEN == 8
OPT_HEADER_LEN == 28
SECTION_HEADER_LEN == 40
RELOC_LEN == 10
SYMBOL_LEN == 18
U16_MOD == 65536

F_RELFLG == 1
F_EXEC == 2
F_LNNO == 4
F_LSYMS == 8
F_AR32W == 512
F_BM32B == 8192
F_BM32MAU == 16384

NamedFlags == <<F_RELFLG, F_EXEC, F_LNNO, F_LSYMS, F_AR32W, F_BM32B, F_BM32MAU>>

----------------------------------------------------------------------------
(* Byte cursor: std::io::Cursor<&[u8]> with byteorder's big-endian reads *)

Byte == 0..255

\* faulty variant: the last byte of the buffer cannot be read
CanRead_one_short(b, p, n) == p + n < Len(b)

CanRead(b, p, n) == p + n <= Len(b)

RdU8(b, p) == b[p + 1]

RdBE16(b, p) == b[p + 1] * 256 + b[p + 2]

RdBE32(b, p) == ((b[p + 1] * 256 + b[p + 2]) * 256 + b[p + 3]) * 256 + b[p + 4]

RdBytes(b, p, n) == SubSeq(b, p + 1, p + n)

\* read_i16: the two's complement reading of a 16-bit word
AsI16(v) == IF v >= 32768 THEN v - 65536 ELSE v

\* faulty variant: the byte is taken unsigned
AsI8_unsigned(v) == v

\* `as i8`: the two's complement reading of a byte
AsI8(v) == IF v >= 128 THEN v - 256 ELSE v

Min(a, b) == IF a <= b THEN a ELSE b

----------------------------------------------------------------------------
(* str::from_utf8 and buf_to_str.  A str is modelled by its bytes. *)

Cont(x) == x >= 128 /\ x <= 191

RECURSIVE Utf8Valid(_)
Utf8Valid(s) ==
    IF Len(s) = 0 THEN TRUE
    ELSE LET a == s[1]
             n == Len(s)
         IN  IF a < 128 THEN Utf8Valid(SubSeq(s, 2, n))
             ELSE IF a >= 194 /\ a <= 223
                  THEN n >= 2 /\ Cont(s[2]) /\ Utf8Valid(SubSeq(s, 3, n))
             ELSE IF a >= 224 /\ a <= 239
                  THEN /\ n >= 3
                       /\ Cont(s[2]) /\ Cont(s[3])
                       /\ (a = 224 => s[2] >= 160)
                       /\ (a = 237 => s[2] <= 159)
                       /\ Utf8Valid(SubSeq(s, 4, n))
             ELSE IF a >= 240 /\ a <= 244
                  THEN /\ n >= 4
                       /\ Cont(s[2]) /\ Cont(s[3]) /\ Cont(s[4])
                       /\ (a = 240 => s[2] >= 144)
                       /\ (a = 244 => s[2] <= 143)
                       /\ Utf8Valid(SubSeq(s, 5, n))
             ELSE FALSE

\* the number of bytes of s before its first NUL (Len(s) when it has none)
RECURSIVE NulPosition(_)
NulPosition(s) ==
    IF Len(s) = 0 \/ s[1] = 0 THEN 0 ELSE 1 + NulPosition(Tail(s))

Unknown == <<63, 63, 63>>    \* "???"

buf_to_str(s) ==
    LET t == SubSeq(s, 1, NulPosition(s))
    IN  [ok |-> Utf8Valid(t), s |-> t]

unwrap_or_unknown(r) == IF r.ok THEN r.s ELSE Unknown

----------------------------------------------------------------------------
(* FileHeader *)

HasBit(w, f) == (w \div f) % 2 = 1

\* the bits of w that are named flags
RECURSIVE KeepBits(_, _)
KeepBits(w, fs) ==
    IF fs = <<>> THEN 0
    ELSE (IF HasBit(w, Head(fs)) THEN Head(fs) ELSE 0) + KeepBits(w, Tail(fs))

\* faulty variant: every bit of the word is kept
from_bits_unchecked(w) == w

from_bits_truncate(w) == KeepBits(w, NamedFlags)

FileHeader_read(b, p) ==
    [magic               |-> RdBE16(b, p),
     section_count       |-> RdBE16(b, p + 2),
     timestamp           |-> RdBE32(b, p + 4),
     symbol_table_offset |-> RdBE32(b, p + 8),
     symbol_count        |-> RdBE32(b, p + 12),
     opt_header          |-> RdBE16(b, p + 16),
     flags               |-> from_bits_truncate(RdBE16(b, p + 18))]

contains(flags, f) == HasBit(flags, f)

executable(h) == contains(h.flags, F_EXEC)

local_symbols_stripped(h) == contains(h.flags, F_LSYMS)

is_32100_required(h) == contains(h.flags, F_BM32B)

mau_required(h) == contains(h.flags, F_BM32MAU)

\* faulty variant: the second magic is forgotten
bad_metadata_one_magic(h) == ~(h.magic = MAGIC_WE32K)

bad_metadata(h) == ~(h.magic = MAGIC_WE32K \/ h.magic = MAGIC_WE32K_TV)

OptionalHeader_read(b, p) ==
    [magic         |-> RdBE16(b, p),
     version_stamp |-> RdBE16(b, p + 2),
     text_size     |-> RdBE32(b, p + 4),
     dsize         |-> RdBE32(b, p + 8),
     bsize         |-> RdBE32(b, p + 12),
     entry_point   |-> RdBE32(b, p + 16),
     text_start    |-> RdBE32(b, p + 20),
     data_start    |-> RdBE32(b, p + 24)]

----------------------------------------------------------------------------
(* Sections *)

\* a big-endian u32 kept as its two 16-bit halves <<high, low>>: the section's
\* vaddr, the one field the program adds to, ranges over all 32 bits
RdWide32(b, p) == <<RdBE16(b, p), RdBE16(b, p + 2)>>

SectionHeader_read(b, p) ==
    [name    |-> RdBytes(b, p, 8),
     paddr   |-> RdBE32(b, p + 8),
     vaddr   |-> RdWide32(b, p + 12),
     size    |-> RdBE32(b, p + 16),
     scnptr  |-> RdBE32(b, p + 20),
     relptr  |-> RdBE32(b, p + 24),
     lnnoptr |-> RdBE32(b, p + 28),
     nreloc  |-> RdBE16(b, p + 32),
     nlnno   |-> RdBE16(b, p + 34),
     flags   |-> RdBE32(b, p + 36)]

\* first loop of read_sections: section_count headers, one after the other
RECURSIVE ReadSectionHeaders(_, _, _, _)
ReadSectionHeaders(b, p, n, acc) ==
    IF n = 0 THEN [ok |-> TRUE, hs |-> acc, pos |-> p]
    ELSE IF ~CanRead(b, p, SECTION_HEADER_LEN)
         THEN [ok |-> FALSE, hs |-> acc, pos |-> p]
         ELSE ReadSectionHeaders(b, p + SECTION_HEADER_LEN, n - 1,
                                 Append(acc, SectionHeader_read(b, p)))

RelocationEntry_read(b, p) ==
    [vaddr  |-> RdBE32(b, p),
     symndx |-> RdBE32(b, p + 4),
     rtype  |-> RdBE16(b, p + 8)]

RECURSIVE ReadRelocs(_, _, _, _)
ReadRelocs(b, p, n, acc) ==
    IF n = 0 THEN [ok |-> TRUE, es |-> acc, pos |-> p]
    ELSE IF ~CanRead(b, p, RELOC_LEN)
         THEN [ok |-> FALSE, es |-> acc, pos |-> p]
         ELSE ReadRelocs(b, p + RELOC_LEN, n - 1,
                         Append(acc, RelocationEntry_read(b, p)))

\* where the relocation entries of a section are read from
RelocStart(h) == h.relptr

\* faulty variant: the data is read from the relocation pointer
DataStart_at_relptr(h) == h.relptr

\* where the data of a section is read from
DataStart(h) == h.scnptr

\* one iteration of the second loop of read_sections
SectionBody(b, p, h) ==
    LET rel == IF h.nreloc > 0
               THEN ReadRelocs(b, RelocStart(h), h.nreloc, <<>>)
               ELSE [ok |-> TRUE, es |-> <<>>, pos |-> p]
        dok == h.size = 0 \/ CanRead(b, DataStart(h), h.size)
        dat == IF h.size > 0 /\ dok THEN RdBytes(b, DataStart(h), h.size) ELSE <<>>
        end == IF h.size > 0 THEN DataStart(h) + h.size ELSE rel.pos
    IN  [ok |-> rel.ok /\ dok,
         section |-> [header |-> h, relocation_table |-> rel.es, data |-> dat],
         pos |-> end]

RECURSIVE ReadSectionBodies(_, _, _, _)
ReadSectionBodies(b, p, hs, acc) ==
    IF hs = <<>> THEN [ok |-> TRUE, sections |-> acc, pos |-> p]
    ELSE LET r == SectionBody(b, p, Head(hs))
         IN  IF ~r.ok THEN [ok |-> FALSE, sections |-> acc, pos |-> p]
             ELSE ReadSectionBodies(b, r.pos, Tail(hs), Append(acc, r.section))

\* faulty variant: the header loop stops one short
read_sections_one_short(file_header, b, p) ==
    LET n == IF file_header.section_count > 0
             THEN file_header.section_count - 1 ELSE 0
        hs == ReadSectionHeaders(b, p, n, <<>>)
    IN  IF ~hs.ok THEN [ok |-> FALSE, sections |-> <<>>, pos |-> p]
        ELSE ReadSectionBodies(b, hs.pos, hs.hs, <<>>)

read_sections(file_header, b, p) ==
    LET hs == ReadSectionHeaders(b, p, file_header.section_count, <<>>)
    IN  IF ~hs.ok THEN [ok |-> FALSE, sections |-> <<>>, pos |-> p]
        ELSE ReadSectionBodies(b, hs.pos, hs.hs, <<>>)

----------------------------------------------------------------------------
(* Symbols *)

StorageClassOf(n) ==
    CASE n = -1  -> "EndOfFunction"
      [] n = 1   -> "Auto"
      [] n = 2   -> "ExternalSym"
      [] n = 3   -> "Static"
      [] n = 4   -> "Register"
      [] n = 5   -> "ExternalDef"
      [] n = 6   -> "Label"
      [] n = 7   -> "UndefinedLabel"
      [] n = 8   -> "MemberOfStruct"
      [] n = 9   -> "FunctionArg"
      [] n = 10  -> "StructureTag"
      [] n = 11  -> "MemberOfUnion"
      [] n = 12  -> "UnionTag"
      [] n = 13  -> "TypeDefinition"
      [] n = 14  -> "UninitializedStatic"
      [] n = 15  -> "EnumerationTag"
      [] n = 16  -> "MemberOfEnumeration"
      [] n = 17  -> "RegisterParameter"
      [] n = 18  -> "BitField"
      [] n = 100 -> "BeginEndBlock"
      [] n = 101 -> "BeginEndFunc"
      [] n = 102 -> "EndOfStruct"
      [] n = 103 -> "Filename"
      [] n = 104 -> "Line"
      [] n = 105 -> "Alias"
      [] n = 106 -> "Hidden"
      [] OTHER   -> "Null"

\* faulty variant: the file name is taken whenever the record starts like a name
AuxiliarySymbol_by_content(raw, parent_class) ==
    [kind    |-> "Auxiliary",
     x_fname |-> IF raw[1] # 0
                 THEN <<unwrap_or_unknown(buf_to_str(SubSeq(raw, 1, 14)))>>
                 ELSE <<>>]

\* the auxiliary arm of read_symbol
AuxiliarySymbol(raw, parent_class) ==
    [kind      |-> "Auxiliary",
     x_fname   |-> IF parent_class = "Filename"
                   THEN <<unwrap_or_unknown(buf_to_str(SubSeq(raw, 1, 14)))>>
                   ELSE <<>>,
     x_tagndx  |-> RdBE32(raw, 0),
     x_lnno    |-> RdBE16(raw, 4),
     x_size    |-> RdBE16(raw, 6),
     x_fsize   |-> RdBE32(raw, 4),
     x_lnnoptr |-> RdBE32(raw, 8),
     x_endndx  |-> RdBE32(raw, 12),
     x_dimen   |-> <<RdBE16(raw, 8), RdBE16(raw, 10), RdBE16(raw, 12), RdBE16(raw, 14)>>,
     x_tvndx   |-> RdBE16(raw, 16)]

\* the name offset of a primary: the second word of the name overlay
NameOffset(raw) == RdBE32(raw, 4)

\* the primary arm of read_symbol
PrimarySymbol(raw) ==
    [kind          |-> "Primary",
     n_name        |-> SubSeq(raw, 1, SYM_NAME_LEN),
     n_zeroes      |-> RdBE32(raw, 0),
     n_offset      |-> NameOffset(raw),
     n_value       |-> RdBE32(raw, 8),
     n_scnum       |-> AsI16(RdBE16(raw, 12)),
     n_type        |-> RdBE16(raw, 14),
     n_numaux      |-> raw[18],
     storage_class |-> StorageClassOf(AsI8(raw[17]))]

read_symbol(raw, aux, parent_class) ==
    IF aux THEN AuxiliarySymbol(raw, parent_class) ELSE PrimarySymbol(raw)

----------------------------------------------------------------------------
(* String table *)

\* faulty variant: the start of the current string stays where it was
RECURSIVE ScanStrings_start_kept(_, _, _, _)
ScanStrings_start_kept(data, j, i, acc) ==
    IF j >= Len(data) THEN acc
    ELSE IF data[j + 1] = 0
         THEN ScanStrings_start_kept(data, j + 1, i,
                  (i :> unwrap_or_unknown(buf_to_str(SubSeq(data, i + 1, j)))) @@ acc)
         ELSE ScanStrings_start_kept(data, j + 1, i, acc)

\* the loop of StringTable::read over data[j], j = 4 .. data_size - 1, with
\* i the start of the current string; the map is a function offset -> str
RECURSIVE ScanStrings(_, _, _, _)
ScanStrings(data, j, i, acc) ==
    IF j >= Len(data) THEN acc
    ELSE IF data[j + 1] = 0
         THEN ScanStrings(data, j + 1, j + 1,
                  (i :> unwrap_or_unknown(buf_to_str(SubSeq(data, i + 1, j)))) @@ acc)
         ELSE ScanStrings(data, j + 1, i, acc)

\* how many bytes StringTable::read reads after the size word
StringBytes(data_size) == IF data_size > 4 THEN data_size - 4 ELSE 0

StringTable_read(b, p) ==
    IF ~CanRead(b, p, 4) THEN [ok |-> FALSE, table |-> <<>>, pos |-> p]
    ELSE LET data_size == RdBE32(b, p)
             n == StringBytes(data_size)
         IN  IF ~CanRead(b, p + 4, n) THEN [ok |-> FALSE, table |-> <<>>, pos |-> p]
             ELSE LET data == <<0, 0, 0, 0>> \o RdBytes(b, p + 4, n)
                  IN  [ok |-> TRUE,
                       table |-> <<[data |-> data,
                                    data_size |-> data_size,
                                    strings |-> ScanStrings(data, 4, 4, <<>>)]>>,
                       pos |-> p + 4 + n]

\* whether the slice self.data[start..] of string_at is in range
SliceInRange(data, start) == start <= Len(data)

string_at(table, index) ==
    IF ~SliceInRange(table.data, index)
    THEN [outcome |-> "Panic", s |-> <<>>]
    ELSE LET rest == SubSeq(table.data, index + 1, Len(table.data))
             s == SubSeq(rest, 1, NulPosition(rest))
         IN  IF Utf8Valid(s) THEN [outcome |-> "Ok", s |-> s]
             ELSE [outcome |-> "Utf8Error", s |-> <<>>]

----------------------------------------------------------------------------
(* Input buffers: COFF images laid out as the reader expects them            *)
(* (file header, optional header, section headers, section data, relocation  *)
(* tables, symbol table, string table), possibly truncated.                  *)

MaxSections == 2
MaxSymbols == 3

EncBE16(v) == <<(v \div 256) % 256, v % 256>>

EncBE32(v) == <<(v \div 16777216) % 256, (v \div 65536) % 256, (v \div 256) % 256, v % 256>>

Zeros(n) == [i \in 1..n |-> 0]

SeqsUpTo(S, n) == UNION {[1..k -> S] : k \in 0..n}

RECURSIVE Concat(_)
Concat(ss) == IF ss = <<>> THEN <<>> ELSE Head(ss) \o Concat(Tail(ss))

Cut(b, n) == SubSeq(b, 1, Min(Len(b), n))

CutBack(b, d) == SubSeq(b, 1, IF d >= Len(b) THEN 0 ELSE Len(b) - d)

EncFileHeader(magic, nsec, symoff, nsyms, opt, flags) ==
    EncBE16(magic) \o EncBE16(nsec) \o EncBE32(86400) \o EncBE32(symoff)
    \o EncBE32(nsyms) \o EncBE16(opt) \o EncBE16(flags)

EncOptHeader ==
    EncBE16(0) \o EncBE16(0) \o EncBE32(4) \o EncBE32(5) \o EncBE32(6)
    \o EncBE32(7) \o EncBE32(8) \o EncBE32(9)

\* a section of the input: how many relocation entries and data bytes it has
SecKinds == {[nreloc |-> 0, size |-> 0], [nreloc |-> 1, size |-> 0],
             [nreloc |-> 0, size |-> 3], [nreloc |-> 2, size |-> 2]}

RECURSIVE TotalSize(_)
TotalSize(secs) == IF secs = <<>> THEN 0 ELSE Head(secs).size + TotalSize(Tail(secs))

RECURSIVE TotalRelocs(_)
TotalRelocs(secs) == IF secs = <<>> THEN 0 ELSE Head(secs).nreloc + TotalRelocs(Tail(secs))

\* the vaddr of section i of the input, as halves
KindVaddr(i, k) == IF "vaddr" \in DOMAIN k THEN k.vaddr ELSE <<0, 4096 * i>>

EncSectionHeader(i, k, scnptr, relptr) ==
    <<46, 116, 48 + i, 0, 0, 0, 0, 0>>
    \o EncBE32(4096 * i) \o EncBE16(KindVaddr(i, k)[1]) \o EncBE16(KindVaddr(i, k)[2])
    \o EncBE32(k.size)
    \o EncBE32(IF k.size > 0 THEN scnptr ELSE 0)
    \o EncBE32(IF k.nreloc > 0 THEN relptr ELSE 0)
    \o EncBE32(0) \o EncBE16(k.nreloc) \o EncBE16(0) \o EncBE32(32)

\* data bytes on both sides of the printable range [0x20, 0x7f)
DataPattern == <<31, 32, 126, 127, 65, 255, 0, 97, 46>>

EncSectionData(i, k) ==
    [d \in 1..k.size |->
        IF "vaddr" \in DOMAIN k THEN DataPattern[((d - 1) % Len(DataPattern)) + 1]
        ELSE 64 + 16 * i + d]

EncReloc(i, j) == EncBE32(16 * i + j) \o EncBE32(j) \o EncBE16(6)

EncRelocs(i, k) == Concat([j \in 1..k.nreloc |-> EncReloc(i, j)])

\* the 18-byte symbol records of the input
EncSymbol(name, value, scnum, type, class, numaux) ==
    name \o EncBE32(value) \o EncBE16(scnum) \o EncBE16(type) \o <<class, numaux>>

SymKinds == 1..6

BigOffset == 256 * 65536

SymTemplate(t) ==
    CASE t = 1 -> EncSymbol(<<97, 98, 0, 0, 0, 0, 0, 0>>, 16, 1, 4, 2, 0)
      [] t = 2 -> EncSymbol(<<46, 102, 105, 108, 101, 0, 0, 0>>, 0, 1, 0, 103, 1)
      [] t = 3 -> EncSymbol(<<115, 116, 0, 0, 0, 0, 0, 0>>, 32, 2, 8, 3, 2)
      [] t = 4 -> EncSymbol(EncBE32(0) \o EncBE32(4), 48, 1, 4, 2, 0)
      [] t = 5 -> EncSymbol(EncBE32(0) \o EncBE32(BigOffset), 64, 1, 4, 2, 0)
      [] t = 6 -> EncSymbol(<<97, 255, 0, 0, 0, 0, 0, 0>>, 0, 1, 0, 255, 0)

\* the string tables of the input: the size word and the bytes after it
StrVariants == 1..5

StrVariant(v) ==
    CASE v = 1 -> EncBE32(4)
      [] v = 2 -> EncBE32(11) \o <<109, 97, 105, 110, 0, 120, 0>>
      [] v = 3 -> EncBE32(12) \o <<109, 97, 0>>
      [] v = 4 -> EncBE32(11) \o <<97, 0, 195, 40, 0, 122, 122>>
      [] v = 5 -> EncBE32(0)

Build(magic, opt, flags, secs, syms, sv) ==
    LET optbytes == IF opt = 0 THEN <<>> ELSE EncOptHeader
        n == Len(secs)
        data0 == FILE_HEADER_SIZE + Len(optbytes) + SECTION_HEADER_LEN * n
        rel0 == data0 + TotalSize(secs)
        sym0 == rel0 + RELOC_LEN * TotalRelocs(secs)
        scnptr(i) == data0 + TotalSize(SubSeq(secs, 1, i - 1))
        relptr(i) == rel0 + RELOC_LEN * TotalRelocs(SubSeq(secs, 1, i - 1))
    IN  EncFileHeader(magic, n, sym0, Len(syms), opt, flags)
        \o optbytes
        \o Concat([i \in 1..n |-> EncSectionHeader(i, secs[i], scnptr(i), relptr(i))])
        \o Concat([i \in 1..n |-> EncSectionData(i, secs[i])])
        \o Concat([i \in 1..n |-> EncRelocs(i, secs[i])])
        \o Concat([i \in 1..Len(syms) |-> SymTemplate(syms[i])])
        \o StrVariant(sv)

Magics == {MAGIC_WE32K, MAGIC_WE32K_TV, 0, 28673}

OptSizes == {0, OPT_HEADER_LEN, 1, 65535}

\* flag words: none, EXEC, unnamed bits only, every bit but 0x0080
FlagWords == {0, 2, 33040, 65407}

HeaderInputs ==
    {Cut(Build(m, o, f, <<>>, <<>>, 1), c) :
        m \in Magics, o \in OptSizes, f \in FlagWords,
        c \in {0, 1, 19, 20, 23, 24, 47, 48, 52}}

SectionInputs ==
    {CutBack(Build(MAGIC_WE32K, o, 2, secs, syms, 1), d) :
        o \in {0, OPT_HEADER_LEN},
        secs \in SeqsUpTo(SecKinds, MaxSections) \ {<<>>},
        syms \in {<<>>, <<1>>},
        d \in {0, 1, 5, 23, 45}}

SymbolInputs ==
    UNION {{CutBack(Build(MAGIC_WE32K_TV, 0, 0, <<>>, syms, sv), d) :
               sv \in (IF Len(syms) <= 1 THEN StrVariants ELSE {2}),
               d \in {0, 1, 12}} :
           syms \in SeqsUpTo(SymKinds, MaxSymbols)}

\* symbol tables with two runs of auxiliary entries, the second declared by a
\* primary of another or of the same class than the first
AuxRuns ==
    {<<2, a, 3, b>> : a, b \in SymKinds}
    \cup {<<2, a, 2, b>> : a, b \in SymKinds}
    \cup {<<3, a, b, 2, c>> : a, b \in SymKinds, c \in {1, 2, 4}}

AuxRunInputs == {Build(MAGIC_WE32K_TV, 0, 0, <<>>, syms, 2) : syms \in AuxRuns}

\* files of one section that dump_section_data prints in one, two or three
\* rows, at a low address and at 0xfffffff0, the last 16 bytes of the address
\* space
DumpSizes == {1, 7, 8, 9, 16, 17, 33}

DumpKinds == {[nreloc |-> 0, size |-> n, vaddr |-> v] :
                 n \in DumpSizes, v \in {<<0, 4096>>, <<65535, 65520>>}}

DumpInputs == {Build(MAGIC_WE32K, 0, 2, <<k>>, <<>>, 1) : k \in DumpKinds}

\* b with the bytes at offset p replaced
Patch(b, p, bytes) ==
    [i \in 1..Len(b) |-> IF p < i /\ i <= p + Len(bytes) THEN bytes[i - p] ELSE b[i]]

\* files without symbols whose symbol_table_offset points at the start of the
\* file, into the section headers, or far beyond the end
StrayOffsets == {0, 30, BigOffset}

StrayOffsetInputs ==
    {Patch(Build(MAGIC_WE32K, o, f, secs, <<>>, sv), 8, EncBE32(off)) :
        o \in {0, OPT_HEADER_LEN}, f \in {0, 2},
        secs \in {<<>>, <<[nreloc |-> 2, size |-> 2]>>},
        sv \in {1, 2}, off \in StrayOffsets}

Inputs ==
    HeaderInputs \cup SectionInputs \cup SymbolInputs \cup AuxRunInputs \cup DumpInputs
    \cup StrayOffsetInputs

\* the offsets string_at is called with
OffsetInputs == {0, 3, 4, 5, 6, 9, 10, 11, 12, BigOffset}

----------------------------------------------------------------------------
(* The instruction decoder (decode.rs) *)

R_FP == 9
R_AP == 10
HALFWORD_MNEMONIC_COUNT == 11
OPERAND_BYTES == 32

\* faulty variant: the halfword is read big-endian
RdLE16_big_endian(b, p) == b[p + 1] * 256 + b[p + 2]

RdLE16(b, p) == b[p + 1] + 256 * b[p + 2]

\* faulty variant: the word is read big-endian
RdLE32_big_endian(b, p) ==
    ((b[p + 1] * 256 + b[p + 2]) * 256 + b[p + 3]) * 256 + b[p + 4]

RdLE32(b, p) == b[p + 1] + 256 * (b[p + 2] + 256 * (b[p + 3] + 256 * b[p + 4]))

BYTE_MNEMONICS == <<
    <<[opcode |-> 0, dtype |-> "None", name |-> "halt", ops |-> <<"None", "None", "None", "None">>]>>,
    <<>>,
    <<[opcode |-> 2, dtype |-> "Word", name |-> "SPOPRD", ops |-> <<"Lit", "Src", "None", "None">>]>>,
    <<[opcode |-> 3, dtype |-> "Word", name |-> "SPOPRD2", ops |-> <<"Lit", "Src", "Dest", "None">>]>>,
    <<[opcode |-> 4, dtype |-> "Word", name |-> "MOVAW", ops |-> <<"Src", "Dest", "None", "None">>]>>,
    <<>>,
    <<[opcode |-> 6, dtype |-> "Word", name |-> "SPOPRT", ops |-> <<"Lit", "Src", "None", "None">>]>>,
    <<[opcode |-> 7, dtype |-> "Word", name |-> "SPOPT2", ops |-> <<"Lit", "Src", "Dest", "None">>]>>,
    <<[opcode |-> 8, dtype |-> "None", name |-> "RET", ops |-> <<"None", "None", "None", "None">>]>>,
    <<>>,
    <<>>,
    <<>>,
    <<[opcode |-> 12, dtype |-> "Word", name |-> "MOVTRW", ops |-> <<"Src", "Dest", "None", "None">>]>>,
    <<>>,
    <<>>,
    <<>>,
    <<[opcode |-> 16, dtype |-> "Word", name |-> "SAVE", ops |-> <<"Src", "None", "None", "None">>]>>,
    <<>>,
    <<>>,
    <<[opcode |-> 19, dtype |-> "Word", name |-> "SPOPWD", ops |-> <<"Lit", "Dest", "None", "None">>]>>,
    <<[opcode |-> 20, dtype |-> "Byte", name |-> "EXTOP", ops |-> <<"None", "None", "None", "None">>]>>,
    <<>>,
    <<>>,
    <<[opcode |-> 23, dtype |-> "Word", name |-> "SPOPWT", ops |-> <<"Lit", "Dest", "None", "None">>]>>,
    <<[opcode |-> 24, dtype |-> "None", name |-> "RESTORE", ops |-> <<"Src", "None", "None", "None">>]>>,
    <<>>,
    <<>>,
    <<>>,
    <<[opcode |-> 28, dtype |-> "Word", name |-> "SWAPWI", ops |-> <<"Dest", "None", "None", "None">>]>>,
    <<>>,
    <<[opcode |-> 30, dtype |-> "Half", name |-> "SWAPHI", ops |-> <<"Dest", "None", "None", "None">>]>>,
    <<[opcode |-> 31, dtype |-> "Byte", name |-> "SWAPBI", ops |-> <<"Dest", "None", "None", "None">>]>>,
    <<[opcode |-> 32, dtype |-> "Word", name |-> "POPW", ops |-> <<"Src", "None", "None", "None">>]>>,
    <<>>,
    <<[opcode |-> 34, dtype |-> "Word", name |-> "SPOPRS", ops |-> <<"Lit", "Src", "None", "None">>]>>,
    <<[opcode |-> 35, dtype |-> "Word", name |-> "SPOPS2", ops |-> <<"Lit", "Src", "Dest", "None">>]>>,
    <<[opcode |-> 36, dtype |-> "Word", name |-> "JMP", ops |-> <<"Dest", "None", "None", "None">>]>>,
    <<>>,
    <<>>,
    <<[opcode |-> 39, dtype |-> "None", name |-> "CFLUSH", ops |-> <<"None", "None", "None", "None">>]>>,
    <<[opcode |-> 40, dtype |-> "Word", name |-> "TSTW", ops |-> <<"Src", "None", "None", "None">>]>>,
    <<>>,
    <<[opcode |-> 42, dtype |-> "Half", name |-> "TSTH", ops |-> <<"Src", "None", "None", "None">>]>>,
    <<[opcode |-> 43, dtype |-> "Byte", name |-> "TSTB", ops |-> <<"Src", "None", "None", "None">>]>>,
    <<[opcode |-> 44, dtype |-> "Word", name |-> "CALL", ops |-> <<"Src", "Dest", "None", "None">>]>>,
    <<>>,
    <<[opcode |-> 46, dtype |-> "None", name |-> "BPT", ops |-> <<"None", "None", "None", "None">>]>>,
    <<[opcode |-> 47, dtype |-> "None", name |-> "WAIT", ops |-> <<"None", "None", "None", "None">>]>>,
    <<>>,
    <<>>,
    <<[opcode |-> 50, dtype |-> "Word", name |-> "SPOP", ops |-> <<"Lit", "None", "None", "None">>]>>,
    <<[opcode |-> 51, dtype |-> "Word", name |-> "SPOPWS", ops |-> <<"Lit", "Dest", "None", "None">>]>>,
    <<[opcode |-> 52, dtype |-> "Word", name |-> "JSB", ops |-> <<"Dest", "None", "None", "None">>]>>,
    <<>>,
    <<[opcode |-> 54, dtype |-> "Half", name |-> "BSBH", ops |-> <<"Lit", "None", "None", "None">>]>>,
    <<[opcode |-> 55, dtype |-> "Byte", name |-> "BSBB", ops |-> <<"Lit", "None", "None", "None">>]>>,
    <<[opcode |-> 56, dtype |-> "Word", name |-> "BITW", ops |-> <<"Src", "Src", "None", "None">>]>>,
    <<>>,
    <<[opcode |-> 58, dtype |-> "Half", name |-> "BITH", ops |-> <<"Src", "Src", "None", "None">>]>>,
    <<[opcode |-> 59, dtype |-> "Byte", name |-> "BITB", ops |-> <<"Src", "Src", "None", "None">>]>>,
    <<[opcode |-> 60, dtype |-> "Word", name |-> "CMPW", ops |-> <<"Src", "Src", "None", "None">>]>>,
    <<>>,
    <<[opcode |-> 62, dtype |-> "Half", name |-> "CMPH", ops |-> <<"Src", "Src", "None", "None">>]>>,
    <<[opcode |-> 63, dtype |-> "Byte", name |-> "CMPB", ops |-> <<"Src", "Src", "None", "None">>]>>,
    <<[opcode |-> 64, dtype |-> "None", name |-> "RGEQ", ops |-> <<"None", "None", "None", "None">>]>>,
    <<>>,
    <<[opcode |-> 66, dtype |-> "Half", name |-> "BGEH", ops |-> <<"Lit", "None", "None", "None">>]>>,
    <<[opcode |-> 67, dtype |-> "Byte", name |-> "BGEB", ops |-> <<"Lit", "None", "None", "None">>]>>,
    <<[opcode |-> 68, dtype |-> "None", name |-> "RGTR", ops |-> <<"None", "None", "None", "None">>]>>,
    <<>>,
    <<[opcode |-> 70, dtype |-> "Half", name |-> "BGH", ops |-> <<"Lit", "None", "None", "None">>]>>,
    <<[opcode |-> 71, dtype |-> "Byte", name |-> "BGB", ops |-> <<"Lit", "None", "None", "None">>]>>,
    <<[opcode |-> 72, dtype |-> "None", name |-> "RLSS", ops |-> <<"None", "None", "None", "None">>]>>,
    <<>>,
    <<[opcode |-> 74, dtype |-> "Half", name |-> "BLH", ops |-> <<"Lit", "None", "None", "None">>]>>,
    <<[opcode |-> 75, dtype |-> "Byte", name |-> "BLB", ops |-> <<"Lit", "None", "None", "None">>]>>,
    <<[opcode |-> 76, dtype |-> "None", name |-> "RLEQ", ops |-> <<"None", "None", "None", "None">>]>>,
    <<>>,
    <<[opcode |-> 78, dtype |-> "Half", name |-> "BLEH", ops |-> <<"Lit", "None", "None", "None">>]>>,
    <<[opcode |-> 79, dtype |-> "Byte", name |-> "BLEB", ops |-> <<"Lit", "None", "None", "None">>]>>,
    <<[opcode |-> 80, dtype |-> "None", name |-> "RGEQU", ops |-> <<"None", "None", "None", "None">>]>>,
    <<>>,
    <<[opcode |-> 82, dtype |-> "Half", name |-> "BGEUH", ops |-> <<"Lit", "None", "None", "None">>]>>,
    <<[opcode |-> 83, dtype |-> "Byte", name |-> "BGEUB", ops |-> <<"Lit", "None", "None", "None">>]>>,
    <<[opcode |-> 84, dtype |-> "None", name |-> "RGTRU", ops |-> <<"None", "None", "None", "None">>]>>,
    <<>>,
    <<[opcode |-> 86, dtype |-> "Half", name |-> "BGUH", ops |-> <<"Lit", "None", "None", "None">>]>>,
    <<[opcode |-> 87, dtype |-> "Byte", name |-> "BGUB", ops |-> <<"Lit", "None", "None", "None">>]>>,
    <<[opcode |-> 88, dtype |-> "None", name |-> "RLSSU", ops |-> <<"None", "None", "None", "None">>]>>,
    <<>>,
    <<[opcode |-> 90, dtype |-> "Half", name |-> "BLUH", ops |-> <<"Lit", "None", "None", "None">>]>>,
    <<[opcode |-> 91, dtype |-> "Byte", name |-> "BLUB", ops |-> <<"Lit", "None", "None", "None">>]>>,
    <<[opcode |-> 92, dtype |-> "None", name |-> "RLEQU", ops |-> <<"None", "None", "None", "None">>]>>,
    <<>>,
    <<[opcode |-> 94, dtype |-> "Half", name |-> "BLEUH", ops |-> <<"Lit", "None", "None", "None">>]>>,
    <<[opcode |-> 95, dtype |-> "Byte", name |-> "BLEUB", ops |-> <<"Lit", "None", "None", "None">>]>>,
    <<[opcode |-> 96, dtype |-> "None", name |-> "RVC", ops |-> <<"None", "None", "None", "None">>]>>,
    <<>>,
    <<[opcode |-> 98, dtype |-> "Half", name |-> "BVCH", ops |-> <<"Lit", "None", "None", "None">>]>>,
    <<[opcode |-> 99, dtype |-> "Byte", name |-> "BVCB", ops |-> <<"Lit", "None", "None", "None">>]>>,
    <<[opcode |-> 100, dtype |-> "None", name |-> "RNEQU", ops |-> <<"None", "None", "None", "None">>]>>,
    <<>>,
    <<[opcode |-> 102, dtype |-> "Half", name |-> "BNEH", ops |-> <<"Lit", "None", "None", "None">>]>>,
    <<[opcode |-> 103, dtype |-> "Byte", name |-> "BNEB", ops |-> <<"Lit", "None", "None", "None">>]>>,
    <<[opcode |-> 104, dtype |-> "None", name |-> "RVS", ops |-> <<"None", "None", "None", "None">>]>>,
    <<>>,
    <<[opcode |-> 106, dtype |-> "Half", name |-> "BVSH", ops |-> <<"Lit", "None", "None", "None">>]>>,
    <<[opcode |-> 107, dtype |-> "Byte", name |-> "BVSB", ops |-> <<"Lit", "None", "None", "None">>]>>,
    <<[opcode |-> 108, dtype |-> "None", name |-> "REQLU", ops |-> <<"None", "None", "None", "None">>]>>,
    <<>>,
    <<[opcode |-> 110, dtype |-> "Half", name |-> "BEH", ops |-> <<"Lit", "None", "None", "None">>]>>,
    <<[opcode |-> 111, dtype |-> "Byte", name |-> "BEB", ops |-> <<"Lit", "None", "None", "None">>]>>,
    <<[opcode |-> 112, dtype |-> "None", name |-> "NOP", ops |-> <<"None", "None", "None", "None">>]>>,
    <<>>,
    <<[opcode |-> 114, dtype |-> "None", name |-> "NOP3", ops |-> <<"None", "None", "None", "None">>]>>,
    <<[opcode |-> 115, dtype |-> "None", name |-> "NOP2", ops |-> <<"None", "None", "None", "None">>]>>,
    <<[opcode |-> 116, dtype |-> "None", name |-> "RNEQ", ops |-> <<"None", "None", "None", "None">>]>>,
    <<>>,
    <<[opcode |-> 118, dtype |-> "Half", name |-> "BNEH", ops |-> <<"Lit", "None", "None", "None">>]>>,
    <<[opcode |-> 119, dtype |-> "Byte", name |-> "BNEB", ops |-> <<"Lit", "None", "None", "None">>]>>,
    <<[opcode |-> 120, dtype |-> "None", name |-> "RSB", ops |-> <<"None", "None", "None", "None">>]>>,
    <<>>,
    <<[opcode |-> 122, dtype |-> "Half", name |-> "BRH", ops |-> <<"Lit", "None", "None", "None">>]>>,
    <<[opcode |-> 123, dtype |-> "Byte", name |-> "BRB", ops |-> <<"Lit", "None", "None", "None">>]>>,
    <<[opcode |-> 124, dtype |-> "None", name |-> "REQL", ops |-> <<"None", "None", "None", "None">>]>>,
    <<>>,
    <<[opcode |-> 126, dtype |-> "Half", name |-> "BEH", ops |-> <<"Lit", "None", "None", "None">>]>>,
    <<[opcode |-> 127, dtype |-> "Byte", name |-> "BEB", ops |-> <<"Lit", "None", "None", "None">>]>>,
    <<[opcode |-> 128, dtype |-> "Word", name |-> "CLRW", ops |-> <<"Dest", "None", "None", "None">>]>>,
    <<>>,
    <<[opcode |-> 130, dtype |-> "Half", name |-> "CLRH", ops |-> <<"Dest", "None", "None", "None">>]>>,
    <<[opcode |-> 131, dtype |-> "Byte", name |-> "CLRB", ops |-> <<"Dest", "None", "None", "None">>]>>,
    <<[opcode |-> 132, dtype |-> "Word", name |-> "MOVW", ops |-> <<"Src", "Dest", "None", "None">>]>>,
    <<>>,
    <<[opcode |-> 134, dtype |-> "Half", name |-> "MOVH", ops |-> <<"Src", "Dest", "None", "None">>]>>,
    <<[opcode |-> 135, dtype |-> "Byte", name |-> "MOVB", ops |-> <<"Src", "Dest", "None", "None">>]>>,
    <<[opcode |-> 136, dtype |-> "Word", name |-> "MCOMW", ops |-> <<"Src", "Dest", "None", "None">>]>>,
    <<>>,
    <<[opcode |-> 138, dtype |-> "Half", name |-> "MCOMH", ops |-> <<"Src", "Dest", "None", "None">>]>>,
    <<[opcode |-> 139, dtype |-> "Byte", name |-> "MCOMB", ops |-> <<"Src", "Dest", "None", "None">>]>>,
    <<[opcode |-> 140, dtype |-> "Word", name |-> "MNEGW", ops |-> <<"Src", "Dest", "None", "None">>]>>,
    <<>>,
    <<[opcode |-> 142, dtype |-> "Half", name |-> "MNEGH", ops |-> <<"Src", "Dest", "None", "None">>]>>,
    <<[opcode |-> 143, dtype |-> "Byte", name |-> "MNEGB", ops |-> <<"Src", "Dest", "None", "None">>]>>,
    <<[opcode |-> 144, dtype |-> "Word", name |-> "INCW", ops |-> <<"Dest", "None", "None", "None">>]>>,
    <<>>,
    <<[opcode |-> 146, dtype |-> "Half", name |-> "INCH", ops |-> <<"Dest", "None", "None", "None">>]>>,
    <<[opcode |-> 147, dtype |-> "Byte", name |-> "INCB", ops |-> <<"Dest", "None", "None", "None">>]>>,
    <<[opcode |-> 148, dtype |-> "Word", name |-> "DECW", ops |-> <<"Dest", "None", "None", "None">>]>>,
    <<>>,
    <<[opcode |-> 150, dtype |-> "Half", name |-> "DECH", ops |-> <<"Dest", "None", "None", "None">>]>>,
    <<[opcode |-> 151, dtype |-> "Byte", name |-> "DECB", ops |-> <<"Dest", "None", "None", "None">>]>>,
    <<>>,
    <<>>,
    <<>>,
    <<>>,
    <<[opcode |-> 156, dtype |-> "Word", name |-> "ADDW2", ops |-> <<"Src", "Dest", "None", "None">>]>>,
    <<>>,
    <<[opcode |-> 158, dtype |-> "Half", name |-> "ADDH2", ops |-> <<"Src", "Dest", "None", "None">>]>>,
    <<[opcode |-> 159, dtype |-> "Byte", name |-> "ADDB2", ops |-> <<"Src", "Dest", "None", "None">>]>>,
    <<[opcode |-> 160, dtype |-> "Word", name |-> "PUSHW", ops |-> <<"Src", "None", "None", "None">>]>>,
    <<>>,
    <<>>,
    <<>>,
    <<[opcode |-> 164, dtype |-> "Word", name |-> "MODW2", ops |-> <<"Src", "Dest", "None", "None">>]>>,
    <<>>,
    <<[opcode |-> 166, dtype |-> "Half", name |-> "MODH2", ops |-> <<"Src", "Dest", "None", "None">>]>>,
    <<[opcode |-> 167, dtype |-> "Byte", name |-> "MODB2", ops |-> <<"Src", "Dest", "None", "None">>]>>,
    <<[opcode |-> 168, dtype |-> "Word", name |-> "MULW2", ops |-> <<"Src", "Dest", "None", "None">>]>>,
    <<>>,
    <<[opcode |-> 170, dtype |-> "Half", name |-> "MULH2", ops |-> <<"Src", "Dest", "None", "None">>]>>,
    <<[opcode |-> 171, dtype |-> "Byte", name |-> "MULB2", ops |-> <<"Src", "Dest", "None", "None">>]>>,
    <<[opcode |-> 172, dtype |-> "Word", name |-> "DIVW2", ops |-> <<"Src", "Dest", "None", "None">>]>>,
    <<>>,
    <<[opcode |-> 174, dtype |-> "Half", name |-> "DIVH2", ops |-> <<"Src", "Dest", "None", "None">>]>>,
    <<[opcode |-> 175, dtype |-> "Byte", name |-> "DIVB2", ops |-> <<"Src", "Dest", "None", "None">>]>>,
    <<[opcode |-> 176, dtype |-> "Word", name |-> "ORW2", ops |-> <<"Src", "Dest", "None", "None">>]>>,
    <<>>,
    <<[opcode |-> 178, dtype |-> "Half", name |-> "ORH2", ops |-> <<"Src", "Dest", "None", "None">>]>>,
    <<[opcode |-> 179, dtype |-> "Byte", name |-> "ORB2", ops |-> <<"Src", "Dest", "None", "None">>]>>,
    <<[opcode |-> 180, dtype |-> "Word", name |-> "XORW2", ops |-> <<"Src", "Dest", "None", "None">>]>>,
    <<>>,
    <<[opcode |-> 182, dtype |-> "Half", name |-> "XORH2", ops |-> <<"Src", "Dest", "None", "None">>]>>,
    <<[opcode |-> 183, dtype |-> "Byte", name |-> "XORB2", ops |-> <<"Src", "Dest", "None", "None">>]>>,
    <<[opcode |-> 184, dtype |-> "Word", name |-> "ANDW2", ops |-> <<"Src", "Dest", "None", "None">>]>>,
    <<>>,
    <<[opcode |-> 186, dtype |-> "Half", name |-> "ANDH2", ops |-> <<"Src", "Dest", "None", "None">>]>>,
    <<[opcode |-> 187, dtype |-> "Byte", name |-> "ANDB2", ops |-> <<"Src", "Dest", "None", "None">>]>>,
    <<[opcode |-> 188, dtype |-> "Word", name |-> "SUBW2", ops |-> <<"Src", "Dest", "None", "None">>]>>,
    <<>>,
    <<[opcode |-> 190, dtype |-> "Half", name |-> "SUBH2", ops |-> <<"Src", "Dest", "None", "None">>]>>,
    <<[opcode |-> 191, dtype |-> "Byte", name |-> "SUBB2", ops |-> <<"Src", "Dest", "None", "None">>]>>,
    <<[opcode |-> 192, dtype |-> "Word", name |-> "ALSW3", ops |-> <<"Src", "Src", "Dest", "None">>]>>,
    <<>>,
    <<>>,
    <<>>,
    <<[opcode |-> 196, dtype |-> "Word", name |-> "ARSW3", ops |-> <<"Src", "Src", "Dest", "None">>]>>,
    <<>>,
    <<[opcode |-> 198, dtype |-> "Half", name |-> "ARSH3", ops |-> <<"Src", "Src", "Dest", "None">>]>>,
    <<[opcode |-> 199, dtype |-> "Byte", name |-> "ARSB3", ops |-> <<"Src", "Src", "Dest", "None">>]>>,
    <<[opcode |-> 200, dtype |-> "Word", name |-> "INSFW", ops |-> <<"Src", "Src", "Src", "Dest">>]>>,
    <<>>,
    <<[opcode |-> 202, dtype |-> "Half", name |-> "INSFH", ops |-> <<"Src", "Src", "Src", "Dest">>]>>,
    <<[opcode |-> 203, dtype |-> "Byte", name |-> "INSFB", ops |-> <<"Src", "Src", "Src", "Dest">>]>>,
    <<[opcode |-> 204, dtype |-> "Word", name |-> "EXTFW", ops |-> <<"Src", "Src", "Src", "Dest">>]>>,
    <<>>,
    <<[opcode |-> 206, dtype |-> "Half", name |-> "EXTFH", ops |-> <<"Src", "Src", "Src", "Dest">>]>>,
    <<[opcode |-> 207, dtype |-> "Byte", name |-> "EXTFB", ops |-> <<"Src", "Src", "Src", "Dest">>]>>,
    <<[opcode |-> 208, dtype |-> "Word", name |-> "LLSW3", ops |-> <<"Src", "Src", "Dest", "None">>]>>,
    <<>>,
    <<[opcode |-> 210, dtype |-> "Half", name |-> "LLSH3", ops |-> <<"Src", "Src", "Dest", "None">>]>>,
    <<[opcode |-> 211, dtype |-> "Byte", name |-> "LLSB3", ops |-> <<"Src", "Src", "Dest", "None">>]>>,
    <<[opcode |-> 212, dtype |-> "Word", name |-> "LRSW3", ops |-> <<"Src", "Src", "Dest", "None">>]>>,
    <<>>,
    <<>>,
    <<>>,
    <<[opcode |-> 216, dtype |-> "Word", name |-> "ROTW", ops |-> <<"Src", "Src", "Dest", "None">>]>>,
    <<>>,
    <<>>,
    <<>>,
    <<[opcode |-> 220, dtype |-> "Word", name |-> "ADDW3", ops |-> <<"Src", "Src", "Dest", "None">>]>>,
    <<>>,
    <<[opcode |-> 222, dtype |-> "Half", name |-> "ADDH3", ops |-> <<"Src", "Src", "Dest", "None">>]>>,
    <<[opcode |-> 223, dtype |-> "Byte", name |-> "ADDB3", ops |-> <<"Src", "Src", "Dest", "None">>]>>,
    <<[opcode |-> 224, dtype |-> "Word", name |-> "PUSHAW", ops |-> <<"Src", "None", "None", "None">>]>>,
    <<>>,
    <<>>,
    <<>>,
    <<[opcode |-> 228, dtype |-> "Word", name |-> "MODW3", ops |-> <<"Src", "Src", "Dest", "None">>]>>,
    <<>>,
    <<[opcode |-> 230, dtype |-> "Half", name |-> "MODH3", ops |-> <<"Src", "Src", "Dest", "None">>]>>,
    <<[opcode |-> 231, dtype |-> "Byte", name |-> "MODB3", ops |-> <<"Src", "Src", "Dest", "None">>]>>,
    <<[opcode |-> 232, dtype |-> "Word", name |-> "MULW3", ops |-> <<"Src", "Src", "Dest", "None">>]>>,
    <<>>,
    <<[opcode |-> 234, dtype |-> "Half", name |-> "MULH3", ops |-> <<"Src", "Src", "Dest", "None">>]>>,
    <<[opcode |-> 235, dtype |-> "Byte", name |-> "MULB3", ops |-> <<"Src", "Src", "Dest", "None">>]>>,
    <<[opcode |-> 236, dtype |-> "Word", name |-> "DIVW3", ops |-> <<"Src", "Src", "Dest", "None">>]>>,
    <<>>,
    <<[opcode |-> 238, dtype |-> "Half", name |-> "DIVH3", ops |-> <<"Src", "Src", "Dest", "None">>]>>,
    <<[opcode |-> 239, dtype |-> "Byte", name |-> "DIVB3", ops |-> <<"Src", "Src", "Dest", "None">>]>>,
    <<[opcode |-> 240, dtype |-> "Word", name |-> "ORW3", ops |-> <<"Src", "Src", "Dest", "None">>]>>,
    <<>>,
    <<[opcode |-> 242, dtype |-> "Half", name |-> "ORH3", ops |-> <<"Src", "Src", "Dest", "None">>]>>,
    <<[opcode |-> 243, dtype |-> "Byte", name |-> "ORB3", ops |-> <<"Src", "Src", "Dest", "None">>]>>,
    <<[opcode |-> 244, dtype |-> "Word", name |-> "XORW3", ops |-> <<"Src", "Src", "Dest", "None">>]>>,
    <<>>,
    <<[opcode |-> 246, dtype |-> "Half", name |-> "XORH3", ops |-> <<"Src", "Src", "Dest", "None">>]>>,
    <<[opcode |-> 247, dtype |-> "Byte", name |-> "XORB3", ops |-> <<"Src", "Src", "Dest", "None">>]>>,
    <<[opcode |-> 248, dtype |-> "Word", name |-> "ANDW3", ops |-> <<"Src", "Src", "Dest", "None">>]>>,
    <<>>,
    <<[opcode |-> 250, dtype |-> "Half", name |-> "ANDH3", ops |-> <<"Src", "Src", "Dest", "None">>]>>,
    <<[opcode |-> 251, dtype |-> "Byte", name |-> "ANDB3", ops |-> <<"Src", "Src", "Dest", "None">>]>>,
    <<[opcode |-> 252, dtype |-> "Word", name |-> "SUBW3", ops |-> <<"Src", "Src", "Dest", "None">>]>>,
    <<>>,
    <<[opcode |-> 254, dtype |-> "Half", name |-> "SUBH3", ops |-> <<"Src", "Src", "Dest", "None">>]>>,
    <<[opcode |-> 255, dtype |-> "Byte", name |-> "SUBB3", ops |-> <<"Src", "Src", "Dest", "None">>]>>
>>

HALFWORD_MNEMONICS == <<
    <<[opcode |-> 12297, dtype |-> "None", name |-> "MVERNO", ops |-> <<"None", "None", "None", "None">>]>>,
    <<[opcode |-> 12301, dtype |-> "None", name |-> "ENBVJMP", ops |-> <<"None", "None", "None", "None">>]>>,
    <<[opcode |-> 12307, dtype |-> "None", name |-> "DISVJMP", ops |-> <<"None", "None", "None", "None">>]>>,
    <<[opcode |-> 12313, dtype |-> "None", name |-> "MOVBLW", ops |-> <<"None", "None", "None", "None">>]>>,
    <<[opcode |-> 12319, dtype |-> "None", name |-> "STREND", ops |-> <<"None", "None", "None", "None">>]>>,
    <<[opcode |-> 12335, dtype |-> "None", name |-> "INTACK", ops |-> <<"None", "None", "None", "None">>]>>,
    <<[opcode |-> 12351, dtype |-> "None", name |-> "STRCPY", ops |-> <<"None", "None", "None", "None">>]>>,
    <<[opcode |-> 12357, dtype |-> "None", name |-> "RETG", ops |-> <<"None", "None", "None", "None">>]>>,
    <<[opcode |-> 12385, dtype |-> "None", name |-> "GATE", ops |-> <<"None", "None", "None", "None">>]>>,
    <<[opcode |-> 12460, dtype |-> "None", name |-> "CALLPS", ops |-> <<"None", "None", "None", "None">>]>>,
    <<[opcode |-> 12488, dtype |-> "None", name |-> "RETPS", ops |-> <<"None", "None", "None", "None">>]>>
>>

NULL_MNEMONIC == <<>>

\* Operand::new(0, AddrMode::None, Data::None, None, None, 0)
NewOperand ==
    [size |-> 0, mode |-> "None", data_type |-> "None", expanded_type |-> <<>>,
     register |-> <<>>, embedded |-> 0, cursor |-> 0, bytes |-> Zeros(OPERAND_BYTES)]

\* Decoder::new
NewDecoder ==
    [opcode |-> 0, name |-> "???", data_type |-> "None", operand_count |-> 0,
     operands |-> <<NewOperand, NewOperand, NewOperand, NewOperand>>]

\* faulty variant: the operand keeps the bytes recorded before
reset_keeps_bytes(op) == op

reset(op) == [op EXCEPT !.cursor = 0]

byte_size(op) == op.cursor % 256

append_u8(op, b) ==
    IF op.cursor < 31
    THEN [op EXCEPT !.bytes[op.cursor + 1] = b, !.cursor = op.cursor + 1]
    ELSE op

append_u16(op, h) ==
    IF op.cursor < 29
    THEN [op EXCEPT !.bytes[op.cursor + 1] = h % 256,
                    !.bytes[op.cursor + 2] = (h \div 256) % 256,
                    !.cursor = op.cursor + 2]
    ELSE op

\* faulty variant: the word is recorded as two bytes
append_u32_as_u16(op, w) ==
    IF op.cursor < 27
    THEN [op EXCEPT !.bytes[op.cursor + 1] = w % 256,
                    !.bytes[op.cursor + 2] = (w \div 256) % 256,
                    !.cursor = op.cursor + 2]
    ELSE op

append_u32(op, w) ==
    IF op.cursor < 27
    THEN [op EXCEPT !.bytes[op.cursor + 1] = w % 256,
                    !.bytes[op.cursor + 2] = (w \div 256) % 256,
                    !.bytes[op.cursor + 3] = (w \div 65536) % 256,
                    !.bytes[op.cursor + 4] = (w \div 16777216) % 256,
                    !.cursor = op.cursor + 4]
    ELSE op

\* what decoding one operand gives: the result, the cursor, the operand slot
Decoded(res, p, op) == [res |-> res, pos |-> p, op |-> op]

decode_literal_operand(s, p, op0, dtype) ==
    LET op == [op0 EXCEPT !.mode = "None", !.data_type = "Byte",
                          !.expanded_type = <<>>, !.register = <<>>]
    IN  CASE dtype = "Byte" ->
               IF ~CanRead(s, p, 1) THEN Decoded("IoError", p, op)
               ELSE Decoded("Ok", p + 1,
                            append_u8([op EXCEPT !.embedded = RdU8(s, p)], RdU8(s, p)))
          [] dtype = "Half" ->
               IF ~CanRead(s, p, 2) THEN Decoded("IoError", p, op)
               ELSE Decoded("Ok", p + 2,
                            append_u16([op EXCEPT !.embedded = RdLE16(s, p)], RdLE16(s, p)))
          [] dtype = "Word" ->
               IF ~CanRead(s, p, 4) THEN Decoded("IoError", p, op)
               ELSE Decoded("Ok", p + 4,
                            append_u32([op EXCEPT !.embedded = RdLE32(s, p)], RdLE32(s, p)))
          [] OTHER -> Decoded("Parse", p, op)

\* an operand that needs no trailing bytes
Plain(p, op, mode, reg, value) ==
    Decoded("Ok", p, [op EXCEPT !.mode = mode, !.register = reg, !.embedded = value])

\* faulty variant: the value read is not kept in the operand
Trailing_without_value(s, p, op, mode, reg, n) ==
    IF ~CanRead(s, p, n) THEN Decoded("IoError", p, op)
    ELSE LET v == CASE n = 1 -> RdU8(s, p)
                    [] n = 2 -> RdLE16(s, p)
                    [] n = 4 -> RdLE32(s, p)
             o == [op EXCEPT !.mode = mode, !.register = reg]
         IN  Decoded("Ok", p + n,
                     CASE n = 1 -> append_u8(o, v)
                       [] n = 2 -> append_u16(o, v)
                       [] n = 4 -> append_u32(o, v))

\* an operand followed by n = 1, 2 or 4 little-endian bytes
Trailing(s, p, op, mode, reg, n) ==
    IF ~CanRead(s, p, n) THEN Decoded("IoError", p, op)
    ELSE LET v == CASE n = 1 -> RdU8(s, p)
                    [] n = 2 -> RdLE16(s, p)
                    [] n = 4 -> RdLE32(s, p)
             o == [op EXCEPT !.mode = mode, !.register = reg, !.embedded = v]
         IN  Decoded("Ok", p + n,
                     CASE n = 1 -> append_u8(o, v)
                       [] n = 2 -> append_u16(o, v)
                       [] n = 4 -> append_u32(o, v))

\* faulty variant: every override selects Word
ExpandedType_always_word(r) == <<"Word">>

\* faulty variant: Word and Half are exchanged
ExpandedType_exchanged(r) ==
    CASE r = 0 -> <<"UWord">>
      [] r = 2 -> <<"UHalf">>
      [] r = 3 -> <<"Byte">>
      [] r = 4 -> <<"Half">>
      [] r = 6 -> <<"Word">>
      [] r = 7 -> <<"SByte">>
      [] OTHER -> <<>>

\* the expanded type an override descriptor (m = 14) selects
ExpandedType(r) ==
    CASE r = 0 -> <<"UWord">>
      [] r = 2 -> <<"UHalf">>
      [] r = 3 -> <<"Byte">>
      [] r = 4 -> <<"Word">>
      [] r = 6 -> <<"Half">>
      [] r = 7 -> <<"SByte">>
      [] OTHER -> <<>>

\* faulty variant: the arm for r = 11 tests the stack pointer's number
IllegalRegister_wrong_number(r) == r = 12

\* the `11 =>` arm of the modes that address through a register: the PSW
IllegalRegister(r) == r = 11

RECURSIVE decode_descriptor_operand(_, _, _, _, _, _)
decode_descriptor_operand(s, p, op0, dtype, etype, recur) ==
    LET op1 == [op0 EXCEPT !.data_type = dtype, !.expanded_type = etype]
    IN  IF ~CanRead(s, p, 1) THEN Decoded("IoError", p, op1)
        ELSE
        LET descriptor_byte == RdU8(s, p)
            op == append_u8(op1, descriptor_byte)
            m == (descriptor_byte \div 16) % 16
            r == descriptor_byte % 16
            q == p + 1
        IN  CASE m \in {0, 1, 2, 3} ->
                   Plain(q, op, "PositiveLiteral", <<>>, descriptor_byte)
              [] m = 4 ->
                   IF r = 15 THEN Trailing(s, q, op, "WordImmediate", <<>>, 4)
                   ELSE Plain(q, op, "Register", <<r>>, 0)
              [] m = 5 ->
                   IF r = 15 THEN Trailing(s, q, op, "HalfwordImmediate", <<>>, 2)
                   ELSE IF IllegalRegister(r) THEN Decoded("Parse", q, op)
                   ELSE Plain(q, op, "RegisterDeferred", <<r>>, 0)
              [] m = 6 ->
                   IF r = 15 THEN Trailing(s, q, op, "ByteImmediate", <<>>, 1)
                   ELSE Plain(q, op, "FPShortOffset", <<R_FP>>, r)
              [] m = 7 ->
                   IF r = 15 THEN Trailing(s, q, op, "Absolute", <<>>, 4)
                   ELSE Plain(q, op, "APShortOffset", <<R_AP>>, r)
              [] m = 8 ->
                   IF IllegalRegister(r) THEN Decoded("Parse", q, op)
                   ELSE Trailing(s, q, op, "WordDisplacement", <<r>>, 4)
              [] m = 9 ->
                   IF IllegalRegister(r) THEN Decoded("Parse", q, op)
                   ELSE Trailing(s, q, op, "WordDisplacementDeferred", <<r>>, 4)
              [] m = 10 ->
                   IF IllegalRegister(r) THEN Decoded("Parse", q, op)
                   ELSE Trailing(s, q, op, "HalfwordDisplacement", <<r>>, 2)
              [] m = 11 ->
                   IF IllegalRegister(r) THEN Decoded("Parse", q, op)
                   ELSE Trailing(s, q, op, "HalfwordDisplacementDeferred", <<r>>, 2)
              [] m = 12 ->
                   IF IllegalRegister(r) THEN Decoded("Parse", q, op)
                   ELSE Trailing(s, q, op, "ByteDisplacement", <<r>>, 1)
              [] m = 13 ->
                   IF IllegalRegister(r) THEN Decoded("Parse", q, op)
                   ELSE Trailing(s, q, op, "ByteDisplacementDeferred", <<r>>, 1)
              [] m = 14 ->
                   \* (the test of op.cursor has the record evaluated before the
                   \* recursive call, which keeps the evaluation shallow)
                   IF r \in {0, 2, 3, 4, 6, 7} /\ op.cursor <= OPERAND_BYTES
                   THEN decode_descriptor_operand(s, q, op, dtype, ExpandedType(r), TRUE)
                   ELSE IF r = 15 THEN Trailing(s, q, op, "AbsoluteDeferred", <<>>, 4)
                   ELSE Decoded("Parse", q, op)
              [] m = 15 ->
                   Plain(q, op, "NegativeLiteral", <<>>, descriptor_byte)

decode_operand(s, p, op, mn, ot, etype) ==
    CASE ot = "Lit" -> decode_literal_operand(s, p, reset(op), mn.dtype)
      [] ot \in {"Src", "Dest"} ->
             decode_descriptor_operand(s, p, reset(op), mn.dtype, etype, FALSE)
      [] ot = "None" -> Decoded("Ok", p, reset(op))

\* the search of HALFWORD_MNEMONICS for a 16-bit opcode
RECURSIVE FindHalfword(_, _)
FindHalfword(i, opcode) ==
    IF i > HALFWORD_MNEMONIC_COUNT THEN NULL_MNEMONIC
    ELSE IF HALFWORD_MNEMONICS[i] # <<>> /\ HALFWORD_MNEMONICS[i][1].opcode = opcode
         THEN HALFWORD_MNEMONICS[i]
         ELSE FindHalfword(i + 1, opcode)

\* faulty variant: the two opcode bytes are swapped
HalfwordOpcode_swapped(b1, b2) == b2 * 256 + b1

\* the 16-bit opcode of the two-byte plane
HalfwordOpcode(b1, b2) == b1 * 256 + b2

\* the byte-table slot of a one-byte opcode
ByteMnemonic(b1) == BYTE_MNEMONICS[b1 + 1]

\* the operand loop of decode_instruction, from slot index (0-based) on
RECURSIVE DecodeOperands(_, _, _, _, _, _)
DecodeOperands(s, p, rec, mn, index, etype) ==
    IF index = 4 \/ mn.ops[index + 1] = "None"
    THEN [res |-> "Ok", pos |-> p,
          ir |-> [rec EXCEPT !.opcode = mn.opcode, !.name = mn.name,
                             !.operand_count = index % 256, !.data_type = mn.dtype]]
    ELSE LET d == decode_operand(s, p, rec.operands[index + 1], mn,
                                 mn.ops[index + 1], etype)
             rec1 == [rec EXCEPT !.operands[index + 1] = d.op]
         IN  IF d.res # "Ok" THEN [res |-> d.res, pos |-> d.pos, ir |-> rec1]
             ELSE DecodeOperands(s, d.pos, rec1, mn, index + 1, d.op.expanded_type)

\* faulty variant: the opcode and the name are stored before the operands are
\* decoded
decode_instruction_name_first(s, p, rec) ==
    IF ~CanRead(s, p, 1) THEN [res |-> "IoError", pos |-> p, ir |-> rec]
    ELSE LET b1 == RdU8(s, p)
             named(mn) == [rec EXCEPT !.opcode = mn.opcode, !.name = mn.name]
         IN  IF b1 = 48
             THEN IF ~CanRead(s, p + 1, 1)
                  THEN [res |-> "IoError", pos |-> p + 1, ir |-> rec]
                  ELSE LET mn == FindHalfword(1, HalfwordOpcode(b1, RdU8(s, p + 1)))
                       IN  IF mn = <<>> THEN [res |-> "Parse", pos |-> p + 2, ir |-> rec]
                           ELSE DecodeOperands(s, p + 2, named(mn[1]), mn[1], 0, <<>>)
             ELSE LET mn == ByteMnemonic(b1)
                  IN  IF mn = <<>> THEN [res |-> "Parse", pos |-> p + 1, ir |-> rec]
                      ELSE DecodeOperands(s, p + 1, named(mn[1]), mn[1], 0, <<>>)

decode_instruction(s, p, rec) ==
    IF ~CanRead(s, p, 1) THEN [res |-> "IoError", pos |-> p, ir |-> rec]
    ELSE LET b1 == RdU8(s, p)
         IN  IF b1 = 48
             THEN IF ~CanRead(s, p + 1, 1)
                  THEN [res |-> "IoError", pos |-> p + 1, ir |-> rec]
                  ELSE LET mn == FindHalfword(1, HalfwordOpcode(b1, RdU8(s, p + 1)))
                       IN  IF mn = <<>> THEN [res |-> "Parse", pos |-> p + 2, ir |-> rec]
                           ELSE DecodeOperands(s, p + 2, rec, mn[1], 0, <<>>)
             ELSE LET mn == ByteMnemonic(b1)
                  IN  IF mn = <<>> THEN [res |-> "Parse", pos |-> p + 1, ir |-> rec]
                      ELSE DecodeOperands(s, p + 1, rec, mn[1], 0, <<>>)

----------------------------------------------------------------------------
(* FileContainer::read, one action per region *)

NoCall == [op |-> "none", arg |-> 0, out |-> [outcome |-> "none", s |-> <<>>]]

CoffInit ==
    /\ buf \in Inputs
    /\ pc = "file_header"
    /\ pos = 0
    /\ header = <<>>
    /\ opt_header = <<>>
    /\ sections = <<>>
    /\ symbols = <<>>
    /\ sym_i = 0
    /\ is_aux = FALSE
    /\ aux_index = 0
    /\ sclass = "Null"
    /\ strings = <<>>
    /\ result = "None"
    /\ container = <<>>
    /\ call = NoCall

\* return Err(e): read stops where it is
Fail(e) ==
    /\ result' = e
    /\ UNCHANGED <<buf, pc, pos, header, opt_header, sections, symbols, sym_i,
                   is_aux, aux_index, sclass, strings, container, call, decvars>>

\* the category each region's failure is mapped to
HeaderError == "BadFileHeader"

OptionalHeaderError == "BadOptionalHeader"

SectionsError == "BadSections"

\* faulty variant: the symbol table reports the string table's category
SymbolsError_as_strings == "BadStrings"

SymbolsError == "BadSymbols"

StringsError == "BadStrings"

ReadFileHeader ==
    /\ pc = "file_header" /\ result = "None"
    /\ IF CanRead(buf, pos, FILE_HEADER_SIZE) /\ ~bad_metadata(FileHeader_read(buf, pos))
       THEN /\ header' = <<FileHeader_read(buf, pos)>>
            /\ pos' = pos + FILE_HEADER_SIZE
            /\ pc' = "opt_header"
            /\ UNCHANGED <<buf, opt_header, sections, symbols, sym_i, is_aux,
                           aux_index, sclass, strings, result, container, call, decvars>>
       ELSE Fail(HeaderError)

\* whether read reads an optional header
OptionalHeaderIndicated(h) == h.opt_header > 0

ReadOptionalHeader ==
    /\ pc = "opt_header" /\ result = "None"
    /\ IF OptionalHeaderIndicated(header[1])
       THEN IF CanRead(buf, pos, OPT_HEADER_LEN)
            THEN /\ opt_header' = <<OptionalHeader_read(buf, pos)>>
                 /\ pos' = pos + OPT_HEADER_LEN
                 /\ pc' = "seek"
                 /\ UNCHANGED <<buf, header, sections, symbols, sym_i, is_aux,
                                aux_index, sclass, strings, result, container, call, decvars>>
            ELSE Fail(OptionalHeaderError)
       ELSE /\ pc' = "seek"
            /\ UNCHANGED <<buf, pos, header, opt_header, sections, symbols, sym_i,
                           is_aux, aux_index, sclass, strings, result, container, call, decvars>>

\* FILE_HEADER_SIZE + header.opt_header is a u16 sum
SeekSections ==
    /\ pc = "seek" /\ result = "None"
    /\ FILE_HEADER_SIZE + header[1].opt_header < U16_MOD
    /\ pos' = FILE_HEADER_SIZE + header[1].opt_header
    /\ pc' = "sections"
    /\ UNCHANGED <<buf, header, opt_header, sections, symbols, sym_i, is_aux,
                   aux_index, sclass, strings, result, container, call, decvars>>

\* the sum overflows and the build wraps it
SeekSectionsWrap ==
    /\ pc = "seek" /\ result = "None"
    /\ FILE_HEADER_SIZE + header[1].opt_header >= U16_MOD
    /\ pos' = (FILE_HEADER_SIZE + header[1].opt_header) % U16_MOD
    /\ pc' = "sections"
    /\ UNCHANGED <<buf, header, opt_header, sections, symbols, sym_i, is_aux,
                   aux_index, sclass, strings, result, container, call, decvars>>

\* the sum overflows and the build checks it
SeekSectionsPanic ==
    /\ pc = "seek" /\ result = "None"
    /\ FILE_HEADER_SIZE + header[1].opt_header >= U16_MOD
    /\ Fail("Panic")

ReadSections ==
    /\ pc = "sections" /\ result = "None"
    /\ LET r == read_sections(header[1], buf, pos)
       IN  IF r.ok
           THEN /\ sections' = r.sections
                /\ pos' = r.pos
                /\ pc' = "symbols"
                /\ UNCHANGED <<buf, header, opt_header, symbols, sym_i, is_aux,
                               aux_index, sclass, strings, result, container, call, decvars>>
           ELSE Fail(SectionsError)

\* read_symbol_table with symbol_count = 0: nothing is read, no seek
NoSymbols ==
    /\ pc = "symbols" /\ result = "None"
    /\ ~(header[1].symbol_count > 0)
    /\ pc' = "strings"
    /\ UNCHANGED <<buf, pos, header, opt_header, sections, symbols, sym_i, is_aux,
                   aux_index, sclass, strings, result, container, call, decvars>>

\* faulty variant: the records are read from where the sections left the cursor
BeginSymbols_without_seek ==
    /\ pc = "symbols" /\ result = "None"
    /\ header[1].symbol_count > 0
    /\ is_aux' = FALSE
    /\ aux_index' = 0
    /\ sclass' = "Null"
    /\ pc' = "symbol_records"
    /\ UNCHANGED <<buf, pos, header, opt_header, sections, symbols, sym_i,
                   strings, result, container, call, decvars>>

\* read_symbol_table with symbol_count > 0: the seek and the carry state
BeginSymbols ==
    /\ pc = "symbols" /\ result = "None"
    /\ header[1].symbol_count > 0
    /\ pos' = header[1].symbol_table_offset
    /\ is_aux' = FALSE
    /\ aux_index' = 0
    /\ sclass' = "Null"
    /\ pc' = "symbol_records"
    /\ UNCHANGED <<buf, header, opt_header, sections, symbols, sym_i, strings,
                   result, container, call, decvars>>

\* faulty variant: the auxiliary run is never closed
StillAux_never_closed(left) == TRUE

\* faulty variant: the auxiliary run is closed after its first record
StillAux_closed_early(left) == FALSE

\* is_aux after an auxiliary was read
StillAux(left) == ~(left = 0)

\* one iteration of the loop of read_symbol_table
ReadSymbol ==
    /\ pc = "symbol_records" /\ result = "None"
    /\ sym_i < header[1].symbol_count
    /\ IF CanRead(buf, pos, SYMBOL_LEN)
       THEN LET symbol == read_symbol(RdBytes(buf, pos, SYMBOL_LEN), is_aux, sclass)
                left == (aux_index + 255) % 256
                declares == symbol.kind = "Primary" /\ symbol.n_numaux > 0
            IN  /\ pos' = pos + SYMBOL_LEN
                /\ is_aux' = IF declares THEN TRUE
                             ELSE IF is_aux THEN StillAux(left) ELSE is_aux
                /\ aux_index' = IF declares THEN symbol.n_numaux
                                ELSE IF is_aux THEN left ELSE aux_index
                /\ sclass' = IF declares THEN symbol.storage_class ELSE sclass
                /\ symbols' = Append(symbols, symbol)
                /\ sym_i' = sym_i + 1
                /\ pc' = IF sym_i + 1 = header[1].symbol_count
                         THEN "strings" ELSE "symbol_records"
                /\ UNCHANGED <<buf, header, opt_header, sections, strings, result,
                               container, call, decvars>>
       ELSE Fail(SymbolsError)

ReadStrings ==
    /\ pc = "strings" /\ result = "None"
    /\ LET r == StringTable_read(buf, pos)
       IN  IF r.ok
           THEN /\ strings' = r.table
                /\ pos' = r.pos
                /\ container' = <<[header |-> header[1],
                                   opt_header |-> opt_header,
                                   sections |-> sections,
                                   symbols |-> symbols,
                                   strings |-> r.table[1]]>>
                /\ result' = "Ok"
                /\ pc' = "done"
                /\ UNCHANGED <<buf, header, opt_header, sections, symbols, sym_i,
                               is_aux, aux_index, sclass, call, decvars>>
           ELSE Fail(StringsError)

\* StringTable::string_at on the returned container
StringAt ==
    /\ result = "Ok"
    /\ \E index \in OffsetInputs :
          call' = [op |-> "string_at", arg |-> index,
                   out |-> string_at(container[1].strings, index)]
    /\ UNCHANGED <<buf, pc, pos, header, opt_header, sections, symbols, sym_i,
                   is_aux, aux_index, sclass, strings, result, container, decvars>>

----------------------------------------------------------------------------
(* The decoder's streams and its one operation *)

\* valid register descriptors, then an illegal descriptor (m = 5, r = 11)
RegisterTail == <<64, 65, 66, 67, 68, 69>>

Tails == {<<>>, RegisterTail, <<91>>}

OpcodeStreams == {<<b1>> \o t : b1 \in Byte, t \in Tails}

HalfwordStreams == {<<48, b2>> : b2 \in Byte}

\* the longest run of override descriptors (0xe4) put before one operand
MaxPrefix == 32

\* the four bytes 0x78 0x56 0x34 0x12, the little-endian word 0x12345678
WordBytes == <<120, 86, 52, 18>>

RECURSIVE Repeat(_, _)
Repeat(b, n) == IF n = 0 THEN <<>> ELSE <<b>> \o Repeat(b, n - 1)

\* SAVE (0x10, one Src operand) with k override descriptors before a register,
\* a word immediate, a byte displacement, a halfword displacement or the
\* illegal descriptor 0xdb
PrefixTails == {<<64>>, <<79>> \o WordBytes, <<193, 5>>, <<162, 52, 18>>, <<219, 5>>}

PrefixStreams == {<<16>> \o Repeat(228, k) \o t : k \in 0..MaxPrefix, t \in PrefixTails}

\* SAVE with every descriptor byte, with and without bytes after it
DescriptorStreams == {<<16, b>> \o t : b \in Byte, t \in {<<>>, WordBytes}}

\* MOVAW (0x04, Src then Dest) with an override before the first operand,
\* alone or followed by a second MOVAW without override; ADDW3 (0xdc, Src, Src,
\* Dest) with an override before the second operand
CarryStreams ==
    {<<4, 224 + r, 64, 65>> \o t : r \in {0, 2, 3, 4, 6, 7}, t \in {<<>>, <<4, 66, 67>>}}
    \cup {<<4, 64, 65>>, <<4, 228, 230, 64, 65>>, <<220, 64, 230, 65, 66>>}

\* instructions with a Lit operand: SPOPRD (0x02, word, then Src), SPOP (0x32,
\* word), BSBH (0x36, halfword), BSBB (0x37, byte), each before a next opcode
LiteralStreams ==
    {<<2>> \o WordBytes \o <<64, 55, 9>>,
     <<50>> \o WordBytes \o <<55, 9>>,
     <<54, 52, 18, 55, 9>>,
     <<55, 91, 54, 52, 18>>}

\* whole instructions, and every stream that stops short inside them
WholeStreams ==
    {<<16, 79>> \o WordBytes, <<16, 228, 193, 5>>, <<4, 175, 52, 18, 64>>,
     <<2>> \o WordBytes \o <<64>>, <<54, 52, 18>>, <<48, 9>>, <<0>>}

TruncatedStreams == {SubSeq(w, 1, Min(n, Len(w))) : w \in WholeStreams, n \in 0..7}

\* instructions that leave the decoder in different states: operands of
\* several modes, an expanded type, a run of type prefixes, three operands
Histories ==
    WholeStreams \cup {<<220, 64, 230, 65, 66>>, <<16>> \o Repeat(228, 5) \o <<219, 5>>}

\* an instruction, whole or cut short, behind each of the histories
HistoryStreams == {h \o t : h \in Histories, t \in TruncatedStreams \cup {<<25>>}}

\* SAVE with runs of up to three override descriptors of every kind, before
\* each of the tails and before the end of the stream
OverrideBytes == {224, 226, 227, 228, 230, 231}

MixedRuns == UNION {[1..k -> OverrideBytes] : k \in 1..3}

MixedPrefixStreams ==
    {<<16>> \o run \o t : run \in MixedRuns, t \in PrefixTails \cup {<<>>, <<239, 5>>}}

DecInputs ==
    MixedPrefixStreams \cup OpcodeStreams \cup HalfwordStreams \cup PrefixStreams \cup DescriptorStreams
    \cup CarryStreams \cup LiteralStreams \cup TruncatedStreams \cup HistoryStreams

DecIdle ==
    /\ stream = <<>>
    /\ dpos = 0
    /\ dstart = 0
    /\ ir = NewDecoder
    /\ dresult = "None"

CoffIdle ==
    /\ buf = <<>>
    /\ pc = "idle"
    /\ pos = 0
    /\ header = <<>>
    /\ opt_header = <<>>
    /\ sections = <<>>
    /\ symbols = <<>>
    /\ sym_i = 0
    /\ is_aux = FALSE
    /\ aux_index = 0
    /\ sclass = "Null"
    /\ strings = <<>>
    /\ result = "None"
    /\ container = <<>>
    /\ call = NoCall

DecInit ==
    /\ CoffIdle
    /\ stream \in DecInputs
    /\ dpos = 0
    /\ dstart = 0
    /\ ir = NewDecoder
    /\ dresult = "None"

\* where a read that fails leaves the cursor: before the read, or at the end
\* of the stream, as the library's read_exact has it
AfterFailedRead(p) == {p, Len(stream)}

\* one call of decode_instruction by the streaming loop, which stops at the
\* first error
DecodeInstruction ==
    /\ dresult \in {"None", "Ok"}
    /\ LET d == decode_instruction(stream, dpos, ir)
       IN  /\ dresult' = d.res
           /\ dpos' \in IF d.res = "IoError" THEN AfterFailedRead(d.pos) ELSE {d.pos}
           /\ ir' = d.ir
           /\ dstart' = dpos
    /\ UNCHANGED <<stream, coffvars>>

----------------------------------------------------------------------------
(* The dumpers.  What they print is kept line by line, a line being the     *)
(* sequence of its bytes.                                                    *)

\* the fixed texts of the dumpers, as bytes
\* "        "
TXT_SP8 ==
    <<32, 32, 32, 32, 32, 32, 32, 32>>

\* "    Relocation Table:"
TXT_RELOC_TITLE ==
    <<32, 32, 32, 32, 82, 101, 108, 111, 99, 97, 116, 105, 111, 110, 32, 84,
    97, 98, 108, 101, 58>>

\* "        Num    Vaddr       Symndx  Type"
TXT_RELOC_HEAD ==
    <<32, 32, 32, 32, 32, 32, 32, 32, 78, 117, 109, 32, 32, 32, 32, 86, 97,
    100, 100, 114, 32, 32, 32, 32, 32, 32, 32, 83, 121, 109, 110, 100, 120,
    32, 32, 84, 121, 112, 101>>

\* "        -----  ----------  ------  ----"
TXT_RELOC_RULE ==
    <<32, 32, 32, 32, 32, 32, 32, 32, 45, 45, 45, 45, 45, 32, 32, 45, 45,
    45, 45, 45, 45, 45, 45, 45, 45, 32, 32, 45, 45, 45, 45, 45, 45, 32, 32,
    45, 45, 45, 45>>

\* "       No Entries."
TXT_NO_ENTRIES ==
    <<32, 32, 32, 32, 32, 32, 32, 78, 111, 32, 69, 110, 116, 114, 105, 101,
    115, 46>>

\* "    Section Data (number "
TXT_DATA_TITLE ==
    <<32, 32, 32, 32, 83, 101, 99, 116, 105, 111, 110, 32, 68, 97, 116, 97,
    32, 40, 110, 117, 109, 98, 101, 114, 32>>

\* ", name "
TXT_DATA_NAME ==
    <<44, 32, 110, 97, 109, 101, 32>>

\* "        No Data."
TXT_NO_DATA ==
    <<32, 32, 32, 32, 32, 32, 32, 32, 78, 111, 32, 68, 97, 116, 97, 46>>

HexDigit(d) == IF d < 10 THEN 48 + d ELSE 87 + d

\* {:0wx}: at least w hexadecimal digits
RECURSIVE Hex(_, _)
Hex(v, w) ==
    IF w <= 1 /\ v < 16 THEN <<HexDigit(v)>>
    ELSE Hex(v \div 16, w - 1) \o <<HexDigit(v % 16)>>

\* {}: the decimal digits
RECURSIVE Dec(_)
Dec(v) == IF v < 10 THEN <<48 + v>> ELSE Dec(v \div 10) \o <<48 + (v % 10)>>

\* {:w} and {:0w} of an unsigned number: padded on the left with c
PadLeft(t, w, c) == Repeat(c, IF Len(t) < w THEN w - Len(t) ELSE 0) \o t

\* {:08x} of a u32 kept as halves
HexWide(v) == Hex(v[1], 4) \o Hex(v[2], 4)

\* a u32 kept as halves plus a small number: the sum mod 2^32, and whether the
\* true sum is beyond 32 bits
AddWide(v, i) ==
    LET low == v[2] + i
        high == v[1] + low \div 65536
    IN  [value |-> <<high % 65536, low % 65536>>, overflow |-> high >= 65536]

\* the guard of both section dumpers
BadSectionIndex(c, sec_num) ==
    Len(c.sections) = 0 \/ sec_num > Len(c.sections) - 1

\* one line of the relocation table
RelocationLine(i, entry) ==
    TXT_SP8 \o <<91>> \o PadLeft(Dec(i), 3, 48) \o <<93, 32, 32, 48, 120>>
    \o Hex(entry.vaddr, 8) \o <<32, 32>> \o PadLeft(Dec(entry.symndx), 6, 32)
    \o <<32, 32>> \o PadLeft(Dec(entry.rtype), 3, 32)

dump_relocation_table(c, sec_num) ==
    IF BadSectionIndex(c, sec_num) THEN [outcome |-> "OffsetError", lines |-> <<>>]
    ELSE LET table == c.sections[sec_num + 1].relocation_table
         IN  [outcome |-> "Ok",
              lines |->
                  <<TXT_RELOC_TITLE>>
                  \o (IF Len(table) > 0
                      THEN <<TXT_RELOC_HEAD, TXT_RELOC_RULE>>
                           \o [j \in 1..Len(table) |-> RelocationLine(j - 1, table[j])]
                      ELSE <<TXT_NO_ENTRIES>>)]

\* '.' for a byte outside [0x20, 0x7f)
Printable(c) == IF c >= 32 /\ c < 127 THEN c ELSE 46

\* row_bytes when row r (from 0) is closed: the bytes of the row, and in the
\* slots the row did not reach what the row before left there
RowBytes(data, r) ==
    [x \in 1..16 |->
        IF 16 * r + x <= Len(data) THEN data[16 * r + x]
        ELSE IF r > 0 THEN data[16 * (r - 1) + x] ELSE 0]

\* the hex cells of row r: each byte and a blank, and the gap after the eighth
HexCells(data, r) ==
    LET n == Min(16, Len(data) - 16 * r)
    IN  Concat([j \in 1..n |->
                   Hex(data[16 * r + j], 2) \o <<32>>
                   \o (IF (16 * r + j) % 8 = 0 /\ (16 * r + j) % 16 # 0
                       THEN <<32, 32>> ELSE <<>>)])

\* the blank cells printed before the summary of the row that ends at i
RowSpaces(i, end) == IF i = end THEN 15 - (end % 16) ELSE 0

\* row r of the data of a section, with the address printed in front
RowLine(data, addr, r) ==
    LET end == Len(data) - 1
        i == Min(16 * r + 15, end)
        spaces == RowSpaces(i, end)
        row_bytes == RowBytes(data, r)
    IN  TXT_SP8 \o HexWide(addr) \o <<58, 32, 32, 32>>
        \o HexCells(data, r)
        \o Repeat(32, 3 * spaces)
        \o (IF spaces > 8 THEN <<32, 32>> ELSE <<>>)
        \o <<32, 32, 124, 32>>
        \o [x \in 1..16 |-> IF x - 1 < 16 - spaces THEN Printable(row_bytes[x]) ELSE 32]
        \o <<32, 124>>

\* the rows from r on; header.vaddr + i is a u32 sum, which an overflow-checked
\* build refuses and another build wraps
RECURSIVE DataRows(_, _, _, _, _)
DataRows(data, vaddr, r, checked, acc) ==
    IF 16 * r >= Len(data) THEN [outcome |-> "Ok", lines |-> acc]
    ELSE LET sum == AddWide(vaddr, 16 * r)
         IN  IF sum.overflow /\ checked THEN [outcome |-> "Panic", lines |-> acc]
             ELSE DataRows(data, vaddr, r + 1, checked,
                           Append(acc, RowLine(data, sum.value, r)))

dump_section_data(c, sec_num, checked) ==
    IF BadSectionIndex(c, sec_num) THEN [outcome |-> "OffsetError", lines |-> <<>>]
    ELSE LET section == c.sections[sec_num + 1]
             sec_name == unwrap_or_unknown(buf_to_str(section.header.name))
             title == TXT_DATA_TITLE \o Dec(sec_num) \o TXT_DATA_NAME \o sec_name
                      \o <<41, 58>>
         IN  IF Len(section.data) = 0
             THEN [outcome |-> "Ok", lines |-> <<title, TXT_NO_DATA>>]
             ELSE DataRows(section.data, section.header.vaddr, 0, checked, <<title>>)

\* the section numbers the dumpers are called with
SectionNumbers == 0..MaxSections

DumpRelocationTable ==
    /\ result = "Ok"
    /\ \E sec_num \in SectionNumbers :
          call' = [op |-> "dump_relocation_table", arg |-> sec_num,
                   out |-> dump_relocation_table(container[1], sec_num)]
    /\ UNCHANGED <<buf, pc, pos, header, opt_header, sections, symbols, sym_i,
                   is_aux, aux_index, sclass, strings, result, container, decvars>>

DumpSectionData ==
    /\ result = "Ok"
    /\ \E sec_num \in SectionNumbers, checked \in BOOLEAN :
          call' = [op |-> "dump_section_data", arg |-> sec_num,
                   out |-> dump_section_data(container[1], sec_num, checked)]
    /\ UNCHANGED <<buf, pc, pos, header, opt_header, sections, symbols, sym_i,
                   is_aux, aux_index, sclass, strings, result, container, decvars>>

----------------------------------------------------------------------------
(* fmt::Display for Operand: the text of an operand, as bytes                *)

\* {} of a signed number
SignedDec(n) == IF n < 0 THEN <<45>> \o Dec(0 - n) ELSE Dec(n)

\* "%r0" .. "%r8", "%fp", "%ap", "%psw", "%sp", "%pcbp", "%isp", "%pc"
REG_STRINGS ==
    <<<<37, 114, 48>>,
      <<37, 114, 49>>,
      <<37, 114, 50>>,
      <<37, 114, 51>>,
      <<37, 114, 52>>,
      <<37, 114, 53>>,
      <<37, 114, 54>>,
      <<37, 114, 55>>,
      <<37, 114, 56>>,
      <<37, 102, 112>>,
      <<37, 97, 112>>,
      <<37, 112, 115, 119>>,
      <<37, 115, 112>>,
      <<37, 112, 99, 98, 112>>,
      <<37, 105, 115, 112>>,
      <<37, 112, 99>>>>

\* "%??"
REG_UNKNOWN == <<37, 63, 63>>

reg_string(register) ==
    IF register # <<>> /\ register[1] < 16 THEN REG_STRINGS[register[1] + 1]
    ELSE REG_UNKNOWN

\* "(" reg_string ")"
InParens(t) == <<40>> \o t \o <<41>>

\* "0x" and the hexadecimal digits
Hex0x(v) == <<48, 120>> \o Hex(v, 1)

Operand_fmt(op) ==
    LET e == op.embedded
        reg == reg_string(op.register)
    IN  CASE op.mode = "Absolute" -> <<36>> \o Hex0x(e)
          [] op.mode = "AbsoluteDeferred" -> <<42, 36>> \o Hex0x(e)
          [] op.mode = "ByteDisplacement" -> SignedDec(AsI8(e % 256)) \o InParens(reg)
          [] op.mode = "ByteDisplacementDeferred" ->
                 <<42>> \o SignedDec(AsI8(e % 256)) \o InParens(reg)
          [] op.mode = "HalfwordDisplacement" -> Hex0x(e % U16_MOD) \o InParens(reg)
          [] op.mode = "HalfwordDisplacementDeferred" ->
                 <<42>> \o Hex0x(e % U16_MOD) \o InParens(reg)
          [] op.mode = "WordDisplacement" -> Hex0x(e) \o InParens(reg)
          [] op.mode = "WordDisplacementDeferred" -> <<42>> \o Hex0x(e) \o InParens(reg)
          [] op.mode = "APShortOffset" -> Dec(e) \o InParens(REG_STRINGS[R_AP + 1])
          [] op.mode = "FPShortOffset" -> Dec(e) \o InParens(REG_STRINGS[R_FP + 1])
          [] op.mode = "ByteImmediate" -> <<38>> \o Dec(e)
          [] op.mode = "HalfwordImmediate" -> <<38>> \o Hex0x(e)
          [] op.mode = "WordImmediate" -> <<38>> \o Hex0x(e)
          [] op.mode = "PositiveLiteral" -> <<38>> \o Dec(e)
          [] op.mode = "NegativeLiteral" -> <<38>> \o SignedDec(AsI8(e % 256))
          [] op.mode = "Register" -> reg
          [] op.mode = "RegisterDeferred" -> InParens(reg)
          [] op.mode = "None" -> Dec(e)

----------------------------------------------------------------------------
(* fmt::Display for Instruction.  The line is the byte dump with its         *)
(* padding, then " | ", the name, and the tail: the padding of the name and  *)
(* the operands.                                                             *)

\* the column the byte dump is padded to
DUMP_WIDTH == 30

\* the width the mnemonic is padded to
NAME_WIDTH == 10

\* " xx" for each recorded byte of each operand below operand_count
OperandBytes(rec) ==
    Concat([i \in 1..rec.operand_count |->
               Concat([j \in 1..rec.operands[i].cursor |->
                          <<32>> \o Hex(rec.operands[i].bytes[j], 2)])])

\* for _ in 0..n, with n possibly negative
Blanks(n) == Repeat(32, IF n > 0 THEN n ELSE 0)

Instruction_fmt(rec) ==
    LET bytes_width == 2 + Len(OperandBytes(rec))
        spaces_needed == DUMP_WIDTH - bytes_width
        more_spaces == NAME_WIDTH - Len(rec.name)
        op_count == rec.operand_count
    IN  [dump |-> Hex(rec.opcode, 2) \o OperandBytes(rec) \o Blanks(spaces_needed),
         name |-> rec.name,
         tail |-> Blanks(more_spaces)
                  \o Concat([i \in 1..op_count |->
                                Operand_fmt(rec.operands[i])
                                \o (IF i < op_count THEN <<44>> ELSE <<>>)])]

Init == CoffInit /\ DecIdle

Next ==
    \/ ReadFileHeader
    \/ ReadOptionalHeader
    \/ SeekSections
    \/ SeekSectionsWrap
    \/ SeekSectionsPanic
    \/ ReadSections
    \/ NoSymbols
    \/ BeginSymbols
    \/ ReadSymbol
    \/ ReadStrings
    \/ StringAt
    \/ DumpRelocationTable
    \/ DumpSectionData

vars == <<coffvars, decvars>>

Spec == Init /\ [][Next]_vars

DecNext == DecodeInstruction

DecSpec == DecInit /\ [][DecNext]_vars

----------------------------------------------------------------------------
(* Properties of FileContainer::read, stated on the bytes of the buffer *)

CoffErrors == {"BadFileHeader", "BadOptionalHeader", "BadSections", "BadSymbols",
               "BadStrings"}

\* the buffer holds a whole file header with one of the two magics
\* (0x0170 is the bytes 0x01 0x70, 0x0171 the bytes 0x01 0x71)
GoodHeaderBytes == Len(buf) >= 20 /\ buf[1] = 1 /\ buf[2] \in {112, 113}

\* the file header's fields as they stand in the buffer
RawSectionCount == buf[3] * 256 + buf[4]
RawSymbolCount == ((buf[13] * 256 + buf[14]) * 256 + buf[15]) * 256 + buf[16]
RawOptHeaderSize == buf[17] * 256 + buf[18]
RawFlags == buf[19] * 256 + buf[20]

\* how far read has come
Rank(p) ==
    CASE p = "file_header" -> 0
      [] p = "opt_header" -> 1
      [] p = "seek" -> 2
      [] p = "sections" -> 3
      [] p \in {"symbols", "symbol_records"} -> 4
      [] p = "strings" -> 5
      [] p = "done" -> 6

HeaderDone == Rank(pc) >= 1

\* C1: read returns BadFileHeader for every buffer shorter than 20 bytes or
\* whose big-endian magic is neither 0x0170 nor 0x0171, and never for a buffer
\* of at least 20 bytes with one of these magics.
C1_HeaderRejection ==
    /\ result = "BadFileHeader" => ~GoodHeaderBytes
    /\ (pc # "file_header" \/ result # "None") =>
           (~GoodHeaderBytes => result = "BadFileHeader")

\* the 20-byte buffer that starts 0x00 0x00 is rejected
C1_Witness ==
    /\ result = "BadFileHeader"
    /\ Len(buf) = 20 /\ buf[1] = 0 /\ buf[2] = 0

\* the category of each region
RegionError(p) ==
    CASE p = "file_header" -> "BadFileHeader"
      [] p = "opt_header" -> "BadOptionalHeader"
      [] p = "sections" -> "BadSections"
      [] p \in {"symbols", "symbol_records"} -> "BadSymbols"
      [] p = "strings" -> "BadStrings"
      [] OTHER -> "none"

\* the section headers at `start`, their relocation tables or their data do
\* not fit in the buffer
SectionsShort(start, n) ==
    \/ start + 40 * n > Len(buf)
    \/ \E i \in 1..n :
          LET at == start + 40 * (i - 1)
              size == RdBE32(buf, at + 16)
              scnptr == RdBE32(buf, at + 20)
              relptr == RdBE32(buf, at + 24)
              nreloc == RdBE16(buf, at + 32)
          IN  \/ nreloc > 0 /\ relptr + 10 * nreloc > Len(buf)
              \/ size > 0 /\ scnptr + size > Len(buf)

\* the bytes of the region read stopped in are not all there
RegionShort(p) ==
    CASE p = "file_header" -> ~GoodHeaderBytes
      [] p = "opt_header" -> Len(buf) < 48
      [] p = "sections" -> SectionsShort(pos, RawSectionCount)
      [] p = "symbol_records" -> Len(buf) < pos + 18
      [] p = "strings" ->
             \/ Len(buf) < pos + 4
             \/ RdBE32(buf, pos) > 4 /\ Len(buf) < pos + RdBE32(buf, pos)
      [] OTHER -> FALSE

\* C2: the regions are parsed in the order file header, optional header,
\* sections, symbols, strings; read stops at the first region that fails and
\* returns that region's category, which stands for a short read (or a bad
\* magic) in that very region; a container exists only when no region failed.
C2_FirstErrorCategory ==
    /\ result \in CoffErrors =>
          /\ result = RegionError(pc)
          /\ RegionShort(pc)
          /\ container = <<>>
    /\ (container # <<>>) <=> (result = "Ok")
    /\ result = "Ok" => pc = "done"
    /\ (header # <<>>) <=> (Rank(pc) >= 1)
    /\ opt_header # <<>> => Rank(pc) >= 2
    /\ sections # <<>> => Rank(pc) >= 4
    /\ symbols # <<>> => Rank(pc) >= 4
    /\ (strings # <<>>) <=> (Rank(pc) = 6)

\* the sections were read and the symbol table is short
C2_Witness ==
    /\ result = "BadSymbols"
    /\ pc = "symbol_records"
    /\ Len(sections) = 2
    /\ container = <<>>

\* C3: a returned container has section_count sections and symbol_count
\* symbol entries, primaries and auxiliaries counted together.
C3_Counts ==
    result = "Ok" =>
        /\ Len(container[1].sections) = RawSectionCount
        /\ Len(container[1].sections) = container[1].header.section_count
        /\ Len(container[1].symbols) = RawSymbolCount
        /\ Len(container[1].symbols) = container[1].header.symbol_count

C3_Witness ==
    /\ result = "Ok"
    /\ Len(container[1].sections) = 2
    /\ Len(container[1].symbols) = 1

\* where read_sections starts: 20 + opt_header_size as the build computes it
SectionsStart == (20 + RawOptHeaderSize) % 65536

\* C4: every section of a parsed container holds exactly header.size data
\* bytes, the bytes of the buffer at scnptr .. scnptr + size, and header.nreloc
\* relocation entries, the 10-byte records from relptr on; a buffer too short
\* for them makes read fail with BadSections.
C4_SectionContents ==
    /\ Rank(pc) >= 4 =>
          /\ ~SectionsShort(SectionsStart, RawSectionCount)
          /\ \A i \in 1..Len(sections) :
                LET sec == sections[i]
                    at == SectionsStart + 40 * (i - 1)
                    size == RdBE32(buf, at + 16)
                    scnptr == RdBE32(buf, at + 20)
                    relptr == RdBE32(buf, at + 24)
                    nreloc == RdBE16(buf, at + 32)
                IN  /\ sec.header.size = size
                    /\ sec.header.nreloc = nreloc
                    /\ Len(sec.data) = size
                    /\ sec.data = [k \in 1..size |-> buf[scnptr + k]]
                    /\ Len(sec.relocation_table) = nreloc
                    /\ \A j \in 1..nreloc :
                          LET e == relptr + 10 * (j - 1)
                          IN  /\ sec.relocation_table[j].vaddr = RdBE32(buf, e)
                              /\ sec.relocation_table[j].symndx = RdBE32(buf, e + 4)
                              /\ sec.relocation_table[j].rtype = RdBE16(buf, e + 8)
    /\ (pc = "sections" /\ result # "None") =>
          /\ result = "BadSections"
          /\ SectionsShort(SectionsStart, RawSectionCount)
    /\ result = "Ok" => container[1].sections = sections

\* a section with data and relocation entries, in a returned container
C4_Witness ==
    /\ result = "Ok"
    /\ \E i \in 1..Len(container[1].sections) :
          /\ Len(container[1].sections[i].data) = 2
          /\ Len(container[1].sections[i].relocation_table) = 2

\* read failed with BadSections because a section's data or relocation table
\* runs past the end of the buffer, the section headers being whole
C4_ShortWitness ==
    /\ result = "BadSections"
    /\ SectionsStart + 40 * RawSectionCount <= Len(buf)

IsPrimary(e) == e.kind = "Primary"
IsAux(e) == e.kind = "Auxiliary"

\* the auxiliaries that follow position i
RECURSIVE AuxRun(_, _)
AuxRun(syms, i) ==
    IF i + 1 <= Len(syms) /\ IsAux(syms[i + 1]) THEN 1 + AuxRun(syms, i + 1) ELSE 0

\* every auxiliary lies in the run a primary before it declared
AuxDeclared(syms) ==
    \A i \in 1..Len(syms) :
        IsAux(syms[i]) =>
            \E q \in 1..(i - 1) :
                /\ IsPrimary(syms[q])
                /\ i - q <= syms[q].n_numaux
                /\ \A j \in (q + 1)..i : IsAux(syms[j])

\* C5 as stated: each primary with numaux = k is followed immediately by
\* exactly k auxiliaries, and every auxiliary belongs to a declared run.
C5_AsStated ==
    result = "Ok" =>
        /\ \A i \in 1..Len(container[1].symbols) :
              IsPrimary(container[1].symbols[i]) =>
                  AuxRun(container[1].symbols, i) = container[1].symbols[i].n_numaux
        /\ AuxDeclared(container[1].symbols)

\* C5 amended: each primary with numaux = k is followed immediately by exactly
\* k auxiliaries, or by fewer when the symbol table ends first (then every
\* entry after it is an auxiliary); every auxiliary belongs to a declared run.
C5_AuxRuns ==
    result = "Ok" =>
        /\ \A i \in 1..Len(container[1].symbols) :
              IsPrimary(container[1].symbols[i]) =>
                  AuxRun(container[1].symbols, i) =
                      Min(container[1].symbols[i].n_numaux,
                          Len(container[1].symbols) - i)
        /\ AuxDeclared(container[1].symbols)

\* a primary that declares two auxiliaries, followed by them
C5_Witness ==
    /\ result = "Ok"
    /\ Len(container[1].symbols) = 3
    /\ IsPrimary(container[1].symbols[1])
    /\ container[1].symbols[1].n_numaux = 2
    /\ IsAux(container[1].symbols[2])
    /\ IsAux(container[1].symbols[3])

\* C6: a returned container has an optional header if and only if the file
\* header's opt_header_size is 28.
C6_OptionalHeaderIff28 ==
    result = "Ok" =>
        ((container[1].opt_header # <<>>) <=> (container[1].header.opt_header = 28))

\* the bits of a that are bits of b
RECURSIVE BitAnd(_, _)
BitAnd(a, b) ==
    IF a = 0 \/ b = 0 THEN 0
    ELSE (a % 2) * (b % 2) + 2 * BitAnd(a \div 2, b \div 2)

\* the accessors give what the flags word of the file gives
AccessorsFollowFile ==
    /\ executable(header[1]) <=> (BitAnd(RawFlags, 2) # 0)
    /\ local_symbols_stripped(header[1]) <=> (BitAnd(RawFlags, 8) # 0)
    /\ is_32100_required(header[1]) <=> (BitAnd(RawFlags, 8192) # 0)
    /\ mau_required(header[1]) <=> (BitAnd(RawFlags, 16384) # 0)

\* C7 as stated: the flags value held equals the 16-bit word of the file,
\* unnamed bits included, and these bits do not change the accessors.
C7_AsStated ==
    HeaderDone => (header[1].flags = RawFlags /\ AccessorsFollowFile)

\* C7 amended: the flags value held is the word of the file with the bits
\* outside the named flag set (0x620f) cleared; the unnamed bits of the file
\* do not change executable(), local_symbols_stripped(), is_32100_required()
\* or mau_required().
C7_FlagsTruncated ==
    HeaderDone => (header[1].flags = BitAnd(RawFlags, 25103) /\ AccessorsFollowFile)

\* a flags word with named and unnamed bits (0xff7f)
C7_Witness ==
    /\ HeaderDone
    /\ RawFlags = 65407
    /\ header[1].flags = 25103

\* the bytes of the string table from index up to the next NUL (or its end)
RECURSIVE UpToNul(_, _)
UpToNul(data, index) ==
    IF index >= Len(data) \/ data[index + 1] = 0 THEN <<>>
    ELSE <<data[index + 1]>> \o UpToNul(data, index + 1)

\* C8: string_at(offset) has two outcomes for every offset, the bytes from
\* offset to the next NUL decoded as UTF-8 or a UTF-8 error, and no other
\* failure; for offset 0 it returns the empty string.
C8_StringAtTotal ==
    call.op = "string_at" =>
        /\ call.out.outcome \in {"Ok", "Utf8Error"}
        /\ call.out.outcome = "Ok" =>
               call.out.s = UpToNul(container[1].strings.data, call.arg)
        /\ call.arg = 0 => (call.out.outcome = "Ok" /\ call.out.s = <<>>)

\* C9: in a returned container every primary whose zeroes field is 0 stores a
\* name offset within [4, data_size) of the container's string table.
C9_NameOffsetsInRange ==
    result = "Ok" =>
        \A i \in 1..Len(container[1].symbols) :
            LET e == container[1].symbols[i]
            IN  (IsPrimary(e) /\ e.n_zeroes = 0) =>
                    (4 <= e.n_offset /\ e.n_offset < container[1].strings.data_size)

----------------------------------------------------------------------------
(* Properties of decode_instruction *)

\* the opcodes of the halfword table
HalfwordOpcodes == {12297, 12301, 12307, 12313, 12319, 12335, 12351, 12357,
                    12385, 12460, 12488}

\* the slot of the byte table for b1 is empty
EmptySlot(b1) == BYTE_MNEMONICS[b1 + 1] = <<>>

\* the first instruction of the stream was decoded
FirstDecoded == dresult # "None" /\ dstart = 0 /\ Len(stream) >= 1

\* the two-byte plane, and the opcode held after a success
OpcodePlanes ==
    /\ (stream[1] = 48 /\ Len(stream) >= 2) =>
          /\ dresult = "Ok" <=> (12288 + stream[2]) \in HalfwordOpcodes
          /\ dresult # "Ok" => dresult = "Parse"
          /\ dresult = "Ok" => ir.opcode = 12288 + stream[2]
    /\ (stream[1] # 48 /\ dresult = "Ok") => ir.opcode = stream[1]

\* C10 as stated: with b1 = 0x30 the second byte selects a halfword opcode or
\* the result is ParseError; with b1 # 0x30 the result is ParseError exactly
\* when slot b1 of the byte table is empty; after a success the opcode held
\* is b1 or 0x3000|b2.
C10_AsStated ==
    FirstDecoded =>
        /\ OpcodePlanes
        /\ stream[1] # 48 => (dresult = "Parse" <=> EmptySlot(stream[1]))

\* C10 amended: as stated, but with b1 # 0x30 an empty slot gives ParseError
\* with only the opcode byte consumed, and a non-empty slot gives ParseError
\* only from an operand, after at least one operand byte was consumed.
C10_OpcodeLookup ==
    FirstDecoded =>
        /\ OpcodePlanes
        /\ stream[1] # 48 =>
              /\ EmptySlot(stream[1]) => (dresult = "Parse" /\ dpos = 1)
              /\ (dresult = "Parse" /\ dpos = 1) => EmptySlot(stream[1])
              /\ (dresult = "Parse" /\ ~EmptySlot(stream[1])) => dpos >= 2

\* 0x30 0x09 is MVERNO
C10_Witness ==
    /\ dresult = "Ok"
    /\ stream = <<48, 9>>
    /\ ir.opcode = 12297
    /\ ir.name = "MVERNO"
    /\ dpos = 2

\* the bytes recorded for the first n operands of an instruction record
RECURSIVE RecordedBytes(_, _)
RecordedBytes(rec, n) ==
    IF n = 0 THEN 0 ELSE byte_size(rec.operands[n]) + RecordedBytes(rec, n - 1)

\* the last call decoded a one-byte-opcode instruction
OneByteDecoded == dresult = "Ok" /\ stream[dstart + 1] # 48

\* C11 as stated: after a successful decode of a one-byte-opcode instruction
\* the cursor has advanced by 1 plus the sum of the operands' byte_size, for
\* any number of override prefix bytes.
C11_AsStated ==
    OneByteDecoded => dpos - dstart = 1 + RecordedBytes(ir, ir.operand_count)

\* C11 amended: the cursor has advanced by at least 1 plus the sum of the
\* operands' byte_size, and by exactly that when every operand recorded at
\* most 26 bytes; an operand with more override prefix bytes consumes bytes
\* that its 32-byte record drops (append_u8/u16/u32 stop at 31, 29, 27).
C11_CursorAdvance ==
    OneByteDecoded =>
        /\ dpos - dstart >= 1 + RecordedBytes(ir, ir.operand_count)
        /\ (\A i \in 1..ir.operand_count : byte_size(ir.operands[i]) <= 26) =>
               dpos - dstart = 1 + RecordedBytes(ir, ir.operand_count)

\* SAVE with two override descriptors before a word immediate: 8 bytes
C11_Witness ==
    /\ OneByteDecoded
    /\ dstart = 0
    /\ stream = <<16, 228, 228, 79>> \o WordBytes
    /\ dpos = 8
    /\ byte_size(ir.operands[1]) = 7

\* SAVE (one Src operand) followed by a descriptor byte and four more bytes,
\* decoded as the first instruction of the stream
SaveDecoded ==
    /\ dresult # "None" /\ dstart = 0
    /\ Len(stream) >= 6 /\ stream[1] = 16

\* the two nibbles of the descriptor byte of SAVE's operand
DescM == stream[2] \div 16

DescR == stream[2] % 16

\* the pairs the table calls illegal
IllegalPair(m, r) ==
    \/ m \in {5, 8, 9, 10, 11, 12, 13} /\ r = 11
    \/ m = 14 /\ r \notin {0, 2, 3, 4, 6, 7, 15}

\* the table: addressing mode
TableMode(m, r) ==
    CASE m \in 0..3 -> "PositiveLiteral"
      [] m = 4 -> IF r = 15 THEN "WordImmediate" ELSE "Register"
      [] m = 5 -> IF r = 15 THEN "HalfwordImmediate" ELSE "RegisterDeferred"
      [] m = 6 -> IF r = 15 THEN "ByteImmediate" ELSE "FPShortOffset"
      [] m = 7 -> IF r = 15 THEN "Absolute" ELSE "APShortOffset"
      [] m = 8 -> "WordDisplacement"
      [] m = 9 -> "WordDisplacementDeferred"
      [] m = 10 -> "HalfwordDisplacement"
      [] m = 11 -> "HalfwordDisplacementDeferred"
      [] m = 12 -> "ByteDisplacement"
      [] m = 13 -> "ByteDisplacementDeferred"

\* the table: trailing bytes
TableTrailing(m, r) ==
    CASE m \in 0..3 -> 0
      [] m = 4 -> IF r = 15 THEN 4 ELSE 0
      [] m = 5 -> IF r = 15 THEN 2 ELSE 0
      [] m = 6 -> IF r = 15 THEN 1 ELSE 0
      [] m = 7 -> IF r = 15 THEN 4 ELSE 0
      [] m \in {8, 9} -> 4
      [] m \in {10, 11} -> 2
      [] m \in {12, 13} -> 1

\* the table: register
TableRegister(m, r) ==
    CASE m \in 0..3 -> <<>>
      [] m \in {4, 5} -> IF r = 15 THEN <<>> ELSE <<r>>
      [] m = 6 -> IF r = 15 THEN <<>> ELSE <<9>>
      [] m = 7 -> IF r = 15 THEN <<>> ELSE <<10>>
      [] m \in 8..13 -> <<r>>

\* the n bytes after the descriptor byte, little-endian
BytesAfterDescriptor(n) ==
    CASE n = 0 -> 0
      [] n = 1 -> stream[3]
      [] n = 2 -> stream[3] + 256 * stream[4]
      [] n = 4 -> stream[3] + 256 * stream[4] + 65536 * stream[5]
                  + 16777216 * stream[6]

\* the table: embedded value
TableEmbedded(m, r) ==
    CASE m \in 0..3 -> stream[2]
      [] m \in {4, 5} -> BytesAfterDescriptor(TableTrailing(m, r))
      [] m \in {6, 7} -> IF r = 15 THEN BytesAfterDescriptor(TableTrailing(m, r)) ELSE r
      [] m \in 8..13 -> BytesAfterDescriptor(TableTrailing(m, r))

\* C12: for every descriptor byte with m in 0..13 and a legal r, the operand
\* gets the mode, register and embedded value of the table and the cursor
\* moves past exactly the trailing bytes of the table, read little-endian.
C12_DescriptorTable ==
    (SaveDecoded /\ DescM <= 13 /\ ~IllegalPair(DescM, DescR)) =>
        /\ dresult = "Ok"
        /\ ir.operands[1].mode = TableMode(DescM, DescR)
        /\ ir.operands[1].register = TableRegister(DescM, DescR)
        /\ ir.operands[1].embedded = TableEmbedded(DescM, DescR)
        /\ dpos = 2 + TableTrailing(DescM, DescR)

\* 0x7f 0x78 0x56 0x34 0x12 is Absolute 0x12345678
C12_Witness ==
    /\ SaveDecoded
    /\ stream = <<16, 127>> \o WordBytes
    /\ ir.operands[1].mode = "Absolute"
    /\ ir.operands[1].embedded = 305419896
    /\ dpos = 6

\* SAVE and at least its first descriptor byte, decoded first
SaveFirst ==
    /\ dresult # "None" /\ dstart = 0
    /\ Len(stream) >= 2 /\ stream[1] = 16

\* an override descriptor, after which another descriptor is read
IsOverride(b) == b \div 16 = 14 /\ (b % 16) \in {0, 2, 3, 4, 6, 7}

\* the index of the first byte from i on that is no override (0: there is none)
RECURSIVE FirstPlain(_)
FirstPlain(i) ==
    IF i > Len(stream) THEN 0
    ELSE IF IsOverride(stream[i]) THEN FirstPlain(i + 1) ELSE i

\* C13: decode_descriptor_operand gives ParseError for exactly the illegal
\* pairs (m in {5, 8..13} with r = 11; m = 14 with r outside {0, 2, 3, 4, 6,
\* 7, 15}), with the cursor right after the descriptor byte, whatever follows.
C13_IllegalDescriptors ==
    SaveFirst =>
        LET i == FirstPlain(2)
        IN  /\ dresult = "Parse" <=>
                  (i # 0 /\ IllegalPair(stream[i] \div 16, stream[i] % 16))
            /\ dresult = "Parse" => dpos = i

\* 0x5b with four bytes after it: none of them is consumed
C13_Witness ==
    /\ SaveFirst
    /\ stream = <<16, 91>> \o WordBytes
    /\ dresult = "Parse"
    /\ dpos = 2

\* SAVE with the descriptor 0xef and four more bytes, decoded first
DeferredDecoded == SaveDecoded /\ stream[2] = 239

\* what 0xef gives whatever the mode is called: no override, no register, the
\* next four bytes little-endian, the cursor past them
WordAfterEF ==
    /\ dresult = "Ok"
    /\ ir.operands[1].expanded_type = <<>>
    /\ ir.operands[1].register = <<>>
    /\ ir.operands[1].embedded = BytesAfterDescriptor(4)
    /\ dpos = 6

\* C14 as stated: the descriptor 0xef (m = 14, r = 15) decodes, without
\* recursion, to an operand of mode Absolute whose embedded value is the next
\* four bytes read as a little-endian u32.
C14_AsStated ==
    DeferredDecoded => (WordAfterEF /\ ir.operands[1].mode = "Absolute")

\* C14 amended: the descriptor 0xef decodes, without recursion, to an operand
\* of mode AbsoluteDeferred (rendered *$0x...) whose embedded value is the
\* next four bytes read as a little-endian u32.
C14_AbsoluteDeferred ==
    DeferredDecoded => (WordAfterEF /\ ir.operands[1].mode = "AbsoluteDeferred")

C14_Witness ==
    /\ DeferredDecoded
    /\ ir.operands[1].mode = "AbsoluteDeferred"
    /\ ir.operands[1].embedded = 305419896
    /\ byte_size(ir.operands[1]) = 5

\* a register descriptor (m = 4, r # 15): no trailing byte
IsRegisterByte(b) == b \div 16 = 4 /\ b % 16 # 15

\* the type an override descriptor names
OverrideType(b) ==
    CASE b = 224 -> "UWord"
      [] b = 226 -> "UHalf"
      [] b = 227 -> "Byte"
      [] b = 228 -> "Word"
      [] b = 230 -> "Half"
      [] b = 231 -> "SByte"

\* the byte at offset k of the instruction decoded last
At(k) == stream[dstart + k + 1]

\* C15: within one instruction the carry starts as None; an operand with an
\* override descriptor ends with the selected expanded type and the mode and
\* register of the descriptor that follows, and the next descriptor operand
\* of the instruction is decoded with that type as its etype.  Stated for
\* MOVAW (Src, Dest) and ADDW3 (Src, Src, Dest) on register descriptors.
C15_ExpandedTypeCarry ==
    /\ (dresult = "Ok" /\ At(0) = 4 /\ IsRegisterByte(At(1)) /\ IsRegisterByte(At(2))) =>
          /\ ir.operands[1].expanded_type = <<>>
          /\ ir.operands[2].expanded_type = <<>>
    /\ (/\ dresult = "Ok" /\ At(0) = 4 /\ IsOverride(At(1))
        /\ IsRegisterByte(At(2)) /\ IsRegisterByte(At(3))) =>
          /\ ir.operands[1].expanded_type = <<OverrideType(At(1))>>
          /\ ir.operands[1].mode = "Register"
          /\ ir.operands[1].register = <<At(2) % 16>>
          /\ ir.operands[2].expanded_type = <<OverrideType(At(1))>>
          /\ ir.operands[2].mode = "Register"
          /\ ir.operands[2].register = <<At(3) % 16>>
          /\ dpos = dstart + 4
    /\ (/\ dresult = "Ok" /\ At(0) = 220 /\ IsRegisterByte(At(1)) /\ IsOverride(At(2))
        /\ IsRegisterByte(At(3)) /\ IsRegisterByte(At(4))) =>
          /\ ir.operands[1].expanded_type = <<>>
          /\ ir.operands[2].expanded_type = <<OverrideType(At(2))>>
          /\ ir.operands[2].register = <<At(3) % 16>>
          /\ ir.operands[3].expanded_type = <<OverrideType(At(2))>>
          /\ dpos = dstart + 5

\* 0xe4 0x40 gives a Register operand with expanded type Word, and the operand
\* after it sees Word
C15_Witness ==
    /\ dresult = "Ok" /\ dstart = 0
    /\ stream = <<4, 228, 64, 65, 4, 66, 67>>
    /\ ir.operands[1].mode = "Register"
    /\ ir.operands[1].expanded_type = <<"Word">>
    /\ ir.operands[2].expanded_type = <<"Word">>

\* the instruction after it starts again with no carry
C15_ResetWitness ==
    /\ dresult = "Ok" /\ dstart = 4
    /\ stream = <<4, 228, 64, 65, 4, 66, 67>>
    /\ ir.operands[1].expanded_type = <<>>
    /\ ir.operands[2].expanded_type = <<>>

\* the width of a literal by the data type of its mnemonic
LiteralWidth(dtype) ==
    CASE dtype = "Byte" -> 1
      [] dtype = "Half" -> 2
      [] dtype = "Word" -> 4

\* the w bytes after the opcode of the instruction decoded last, little-endian
LiteralValue(w) ==
    CASE w = 1 -> At(1)
      [] w = 2 -> At(1) + 256 * At(2)
      [] w = 4 -> At(1) + 256 * At(2) + 65536 * At(3) + 16777216 * At(4)

\* the instruction decoded last has a one-byte opcode whose first slot is Lit
LiteralDecoded ==
    /\ dresult = "Ok"
    /\ At(0) # 48
    /\ BYTE_MNEMONICS[At(0) + 1][1].ops[1] = "Lit"

\* C16: for an operand slot marked Lit the decoder consumes 1, 2 or 4 bytes by
\* the data type of the mnemonic, keeps them as the little-endian embedded
\* value and consumes no descriptor byte: the byte after the literal is the
\* descriptor of the next operand, or the next opcode.
C16_LiteralOperand ==
    LiteralDecoded =>
        LET mn == BYTE_MNEMONICS[At(0) + 1][1]
            w == LiteralWidth(mn.dtype)
        IN  /\ ir.operands[1].mode = "None"
            /\ ir.operands[1].register = <<>>
            /\ ir.operands[1].embedded = LiteralValue(w)
            /\ byte_size(ir.operands[1]) = w
            /\ \A k \in 1..w : ir.operands[1].bytes[k] = At(k)
            /\ mn.ops[2] = "None" => dpos = dstart + 1 + w
            /\ mn.ops[2] # "None" =>
                  /\ ir.operands[2].bytes[1] = At(1 + w)
                  /\ IsRegisterByte(At(1 + w)) =>
                        /\ ir.operands[2].mode = "Register"
                        /\ ir.operands[2].register = <<At(1 + w) % 16>>

\* SPOPRD: a word literal, then the descriptor 0x40 of its Src operand
C16_Witness ==
    /\ LiteralDecoded /\ dstart = 0
    /\ stream = <<2>> \o WordBytes \o <<64, 55, 9>>
    /\ ir.operands[1].embedded = 305419896
    /\ ir.operands[2].mode = "Register"
    /\ dpos = 6

\* BSBB decoded right after the halfword literal of BSBH
C16_NextOpcodeWitness ==
    /\ LiteralDecoded /\ dstart = 3
    /\ stream = <<54, 52, 18, 55, 9>>
    /\ ir.opcode = 55
    /\ ir.operands[1].embedded = 9

\* a is b cut short
IsProperPrefix(a, b) == Len(a) < Len(b) /\ a = SubSeq(b, 1, Len(a))

\* the first call on the stream has returned
FirstReturned == dresult # "None" /\ dstart = 0

\* C17 as stated: the I/O error is returned only when the cursor is at the end
\* of the stream as the instruction starts; a stream that ends inside an
\* instruction gives ParseError.
C17_AsStated ==
    FirstReturned =>
        /\ dresult = "IoError" => Len(stream) = 0
        /\ \A w \in WholeStreams :
              (IsProperPrefix(stream, w) /\ Len(stream) > 0) => dresult = "Parse"

\* C17 amended: the I/O error is returned whenever the stream ends before the
\* instruction is complete, at its first byte or inside it (after the 0x30
\* prefix, inside a descriptor's or a literal's bytes); ParseError is not
\* returned for a stream cut short, and the whole instruction decodes.
C17_EndOfStream ==
    FirstReturned =>
        \A w \in WholeStreams :
            /\ IsProperPrefix(stream, w) => dresult = "IoError"
            /\ stream = w => (dresult = "Ok" /\ dpos = Len(w))

\* the stream that ends after the 0x30 prefix
C17_Witness ==
    /\ FirstReturned
    /\ stream = <<48>>
    /\ dresult = "IoError"

----------------------------------------------------------------------------
(* C18: the section dumpers and the section index                           *)

DumpCalled == call.op \in {"dump_relocation_table", "dump_section_data"}

\* sec_num is not an index into the sections of the container
InvalidIndex == call.arg >= Len(container[1].sections)

\* the container is the one FileContainer::read returned
ContainerAsRead ==
    container = <<[header |-> header[1], opt_header |-> opt_header,
                   sections |-> sections, symbols |-> symbols,
                   strings |-> strings[1]]>>

\* C18: dump_relocation_table and dump_section_data return OffsetError if and
\* only if sec_num is not a valid index into the sections (zero sections
\* included); then they print no line and the container is as it was; for every
\* valid index they return Ok.
C18_AsStated ==
    DumpCalled =>
        /\ call.out.outcome = "OffsetError" <=> InvalidIndex
        /\ InvalidIndex => call.out.lines = <<>>
        /\ ContainerAsRead
        /\ ~InvalidIndex => call.out.outcome = "Ok"

\* C18, the part of it that holds in every build: OffsetError exactly for the
\* invalid indexes, with nothing printed and the container as it was; a valid
\* index always has the title line printed
C18_OffsetErrorOnly ==
    DumpCalled =>
        /\ call.out.outcome = "OffsetError" <=> InvalidIndex
        /\ InvalidIndex => call.out.lines = <<>>
        /\ ContainerAsRead
        /\ ~InvalidIndex => Len(call.out.lines) >= 2

\* dump_section_data called with a valid index and stopped after the first row
C18_PanicWitness ==
    /\ call.op = "dump_section_data"
    /\ ~InvalidIndex
    /\ call.out.outcome = "Panic"
    /\ Len(call.out.lines) = 2

\* a dumper refused section 0 of a container without sections
C18_ZeroSectionsWitness ==
    /\ DumpCalled
    /\ Len(container[1].sections) = 0
    /\ call.arg = 0
    /\ call.out.outcome = "OffsetError"

----------------------------------------------------------------------------
(* C19: what an auxiliary entry is read as                                  *)

Declares(sym) == sym.kind = "Primary" /\ sym.n_numaux > 0

\* the positions before k of the primaries that declared auxiliary entries
DeclaringBefore(k) == {j \in 1..(k - 1) : Declares(symbols[j])}

Highest(S) == CHOOSE j \in S : \A i \in S : i <= j

\* C19: every auxiliary entry is read by the storage class of the most recent
\* primary before it that declared numaux > 0: it has a file name if and only
\* if that class is Filename, whatever its 18 bytes are and whatever the
\* primaries further back were.
C19_AuxiliaryByParentClass ==
    \A k \in 1..Len(symbols) :
        symbols[k].kind = "Auxiliary" =>
            /\ DeclaringBefore(k) # {}
            /\ (symbols[k].x_fname # <<>>)
                   <=> symbols[Highest(DeclaringBefore(k))].storage_class = "Filename"

\* a table was read whose first run belongs to a Filename primary and whose
\* second run to a primary of another class: the first auxiliary has a file
\* name, the last one, whose bytes are those of a ".file" record, has none
C19_Witness ==
    /\ result = "Ok"
    /\ Len(symbols) = 4
    /\ symbols[1].kind = "Primary" /\ symbols[1].storage_class = "Filename"
    /\ symbols[2].kind = "Auxiliary" /\ symbols[2].x_fname # <<>>
    /\ symbols[3].kind = "Primary" /\ symbols[3].storage_class # "Filename"
    /\ symbols[4].kind = "Auxiliary" /\ symbols[4].x_fname = <<>>
    /\ SubSeq(buf, header[1].symbol_table_offset + 3 * SYMBOL_LEN + 1,
              header[1].symbol_table_offset + 4 * SYMBOL_LEN) = SymTemplate(2)

----------------------------------------------------------------------------
(* C20: where the symbol table leaves the cursor                             *)

\* the offset just past the last symbol record
SymbolsEnd == header[1].symbol_table_offset + SYMBOL_LEN * header[1].symbol_count

\* C20: when symbol_count > 0 and read_symbol_table has succeeded, the cursor
\* is at symbol_table_offset + 18 * symbol_count, just past the last record,
\* and the size word of the string table is the one read at that offset.
C20_CursorAfterSymbols ==
    (header # <<>> /\ header[1].symbol_count > 0) =>
        /\ pc = "strings" /\ result = "None" => pos = SymbolsEnd
        /\ result = "Ok" =>
              /\ Len(symbols) = header[1].symbol_count
              /\ strings[1].data_size = RdBE32(buf, SymbolsEnd)
              /\ pos = SymbolsEnd + 4 + StringBytes(strings[1].data_size)

\* a file whose sections left the cursor away from the symbol table was read
\* with its symbol and a string table of eleven bytes
C20_Witness ==
    /\ result = "Ok"
    /\ Len(sections) = 2
    /\ Len(sections[1].data) > 0
    /\ Len(symbols) = 1
    /\ pos = SymbolsEnd + 4

\* three records were read and the cursor is about to read the size word
C20_BeforeStringsWitness ==
    /\ pc = "strings" /\ result = "None"
    /\ header[1].symbol_count = 3
    /\ pos = header[1].symbol_table_offset + 54
    /\ RdBE32(buf, pos) = 11

----------------------------------------------------------------------------
(* C21: a file without symbols                                               *)

\* read_symbol_table has returned for a file that declares no symbol
NoSymbolsReturned ==
    /\ header # <<>>
    /\ header[1].symbol_count = 0
    /\ pc = "strings"
    /\ result = "None"

\* the container of the example: executable, nothing in it
ExampleContainer ==
    /\ result = "Ok"
    /\ KeepBits(container[1].header.flags, <<F_EXEC>>) = F_EXEC
    /\ container[1].sections = <<>>
    /\ container[1].symbols = <<>>
    /\ container[1].strings.strings = <<>>

\* the file of the example, its symbol_table_offset being any
ExampleFile ==
    /\ Len(buf) = FILE_HEADER_SIZE + 4
    /\ RdBE16(buf, 0) = MAGIC_WE32K
    /\ RdBE16(buf, 2) = 0
    /\ RdBE32(buf, 12) = 0
    /\ RdBE16(buf, 16) = 0
    /\ RdBE16(buf, 18) = F_EXEC
    /\ RdBE32(buf, 20) = 4

\* C21: with symbol_count = 0 read_symbol_table returns no symbol and does not
\* seek, whatever symbol_table_offset is; for a file without sections the
\* string table is then read at the 4 bytes directly after the file header and
\* the optional header, that is at 20 + opt_header_size; and the file of the
\* example (magic 0x0170, no sections, no symbols, flags 0x0002, size word 4)
\* gives an executable container with no sections, no symbols, no strings.
C21_AsStated ==
    /\ NoSymbolsReturned =>
          /\ symbols = <<>>
          /\ header[1].section_count = 0
                 => pos = FILE_HEADER_SIZE + header[1].opt_header
    /\ (ExampleFile /\ pc = "done") => ExampleContainer

\* C21, as far as it holds: no symbol, and the cursor where the sections left
\* it, which for a file without sections is where the seek to the u16 sum
\* FILE_HEADER_SIZE + opt_header_size put it
C21_NoSeek ==
    /\ NoSymbolsReturned =>
          /\ symbols = <<>>
          /\ pos = read_sections(header[1], buf,
                       (FILE_HEADER_SIZE + header[1].opt_header) % U16_MOD).pos
          /\ header[1].section_count = 0
                 => pos = (FILE_HEADER_SIZE + header[1].opt_header) % U16_MOD
    /\ (ExampleFile /\ pc = "done") => ExampleContainer

\* a file without sections and symbols declares an optional header of 65535
\* bytes and has its string table read at offset 19, inside the file header
C21_WrapWitness ==
    /\ NoSymbolsReturned
    /\ header[1].section_count = 0
    /\ header[1].opt_header = 65535
    /\ pos = 19

\* the file of the example was read, with a symbol_table_offset beyond its end
C21_ExampleWitness ==
    /\ ExampleFile
    /\ ExampleContainer
    /\ header[1].symbol_table_offset = BigOffset

\* a file with a section and without symbols was read although its
\* symbol_table_offset points into the section headers
C21_StrayWitness ==
    /\ result = "Ok"
    /\ Len(sections) = 1
    /\ header[1].symbol_count = 0
    /\ header[1].symbol_table_offset = 30
    /\ pos = read_sections(header[1], buf, FILE_HEADER_SIZE).pos + 4
                 + StringBytes(strings[1].data_size)

----------------------------------------------------------------------------
(* C22: the offset of the section headers                                    *)

\* read is past the optional header, which was read or was not indicated
OptionalHeaderDone == header # <<>> /\ pc \notin {"file_header", "opt_header"}

\* C22: for every opt_header_size for which the optional header read succeeds
\* the section headers are read from offset 20 + opt_header_size, the true
\* integer sum: there is no 16-bit wraparound and no arithmetic fault.
C22_AsStated ==
    /\ (pc = "sections" /\ result = "None")
           => pos = FILE_HEADER_SIZE + header[1].opt_header
    /\ result # "Panic"

\* C22, for the sizes whose sum fits 16 bits: the section headers are read from
\* 20 + opt_header_size and there is no fault
C22_SmallSizes ==
    (OptionalHeaderDone /\ FILE_HEADER_SIZE + header[1].opt_header < U16_MOD) =>
        /\ (pc = "sections" /\ result = "None")
               => pos = FILE_HEADER_SIZE + header[1].opt_header
        /\ result # "Panic"

\* the optional header of a file declaring 65535 bytes was read and the section
\* headers are about to be read from offset 19
C22_WrapWitness ==
    /\ pc = "sections" /\ result = "None"
    /\ opt_header # <<>>
    /\ header[1].opt_header = 65535
    /\ pos = 19

\* the same file in a build that checks the sum
C22_PanicWitness ==
    /\ result = "Panic"
    /\ opt_header # <<>>
    /\ header[1].opt_header = 65535
    /\ sections = <<>>

\* an optional header of 28 bytes, and the section headers at 48
C22_SmallWitness ==
    /\ pc = "sections" /\ result = "None"
    /\ opt_header # <<>>
    /\ pos = FILE_HEADER_SIZE + OPT_HEADER_LEN

----------------------------------------------------------------------------
(* C23: what StringTable::read consumes and what its map holds               *)

\* where the string table that was read starts in the file
TableStart == pos - 4 - StringBytes(strings[1].data_size)

\* the offsets in data, from 4 on, of the NUL bytes that were scanned
ScannedNuls == {z \in 4..(Len(strings[1].data) - 1) : strings[1].data[z + 1] = 0}

\* the offset where the string that ends at the NUL at z starts
StartOf(z) ==
    LET before == {y \in ScannedNuls : y < z}
    IN  IF before = {} THEN 4 ELSE 1 + (CHOOSE y \in before : \A x \in before : x <= y)

\* the bytes between the start and the NUL at z
BytesBefore(z) == SubSeq(strings[1].data, StartOf(z) + 1, z)

\* the size word and the bytes after it are the ones of the file, and the map
\* has the starts of the strings as its keys
ConsumedAndKeyed ==
    /\ TableStart >= 0
    /\ strings[1].data_size = RdBE32(buf, TableStart)
    /\ strings[1].data
           = <<0, 0, 0, 0>> \o RdBytes(buf, TableStart + 4, StringBytes(strings[1].data_size))
    /\ DOMAIN strings[1].strings = {StartOf(z) : z \in ScannedNuls}
    /\ Cardinality(DOMAIN strings[1].strings) = Cardinality(ScannedNuls)

\* C23 as stated: StringTable::read consumes the size word and data_size - 4
\* further bytes (none when data_size <= 4); its map has one entry per NUL
\* scanned, keyed by the offset where the string starts, and the value is the
\* bytes between the start and the NUL.
C23_AsStated ==
    result = "Ok" =>
        /\ ConsumedAndKeyed
        /\ \A z \in ScannedNuls : strings[1].strings[StartOf(z)] = BytesBefore(z)

\* C23: StringTable::read consumes the size word and data_size - 4 further
\* bytes (none when data_size <= 4); its map has one entry per NUL scanned,
\* keyed by the offset where the string starts; the value is the bytes between
\* the start and the NUL when they are valid UTF-8 and "???" when they are not;
\* bytes after the last NUL give no entry.
C23_StringTableRead ==
    result = "Ok" =>
        /\ ConsumedAndKeyed
        /\ \A z \in ScannedNuls :
              strings[1].strings[StartOf(z)]
                  = IF Utf8Valid(BytesBefore(z)) THEN BytesBefore(z) ELSE Unknown

\* a table of eleven bytes was read: "a", a string that is not UTF-8, and two
\* bytes after the last NUL
C23_Witness ==
    /\ result = "Ok"
    /\ strings[1].data_size = 11
    /\ DOMAIN strings[1].strings = {4, 6}
    /\ strings[1].strings[4] = <<97>>
    /\ strings[1].strings[6] = Unknown
    /\ BytesBefore(8) = <<195, 40>>
    /\ Len(strings[1].data) = 11

\* a table whose size word is 0 was read: nothing after the size word
C23_SmallSizeWitness ==
    /\ result = "Ok"
    /\ strings[1].data_size = 0
    /\ pos = TableStart + 4
    /\ strings[1].strings = <<>>

----------------------------------------------------------------------------
(* C24: the decoder keeps nothing from one instruction to the next           *)

\* what a caller of a successful decode_instruction looks at
OperandView(op) ==
    [mode |-> op.mode, data_type |-> op.data_type,
     expanded_type |-> op.expanded_type, register |-> op.register,
     embedded |-> op.embedded, bytes |-> SubSeq(op.bytes, 1, op.cursor)]

InstructionView(rec) ==
    [opcode |-> rec.opcode, name |-> rec.name, data_type |-> rec.data_type,
     operand_count |-> rec.operand_count,
     operands |-> [k \in 1..rec.operand_count |-> OperandView(rec.operands[k])]]

\* the same bytes decoded by a decoder that has decoded nothing before
Fresh == decode_instruction(stream, dstart, NewDecoder)

\* C24: the result of decode_instruction depends only on the bytes at the
\* cursor: a decoder with any history and a new decoder give the same outcome
\* and the same cursor advance and, on success, the same opcode, name,
\* data_type, operand_count and, for each operand below operand_count, the
\* same mode, data_type, expanded_type, register, embedded value and recorded
\* bytes.
C24_HistoryIndependent ==
    dresult # "None" =>
        /\ dresult = Fresh.res
        /\ dpos \in (IF Fresh.res = "IoError" THEN AfterFailedRead(Fresh.pos)
                     ELSE {Fresh.pos})
        /\ dresult = "Ok" => InstructionView(ir) = InstructionView(Fresh.ir)

\* a second instruction was decoded by a decoder whose record differs from the
\* one a new decoder ends with: its first operand holds bytes of the
\* instruction before beyond the recorded ones
C24_Witness ==
    /\ dresult = "Ok"
    /\ dstart > 0
    /\ ir.operand_count > 0
    /\ ir # Fresh.ir
    /\ ir.operands[1].bytes # Fresh.ir.operands[1].bytes

\* a second instruction failed behind a history
C24_ErrorWitness ==
    /\ dresult = "IoError"
    /\ dstart > 0
    /\ ir.operand_count = 3
    /\ dpos > dstart

----------------------------------------------------------------------------
(* C25: the descriptors 0xF0 .. 0xFF                                         *)

\* a SAVE (0x10) was decoded, or failed, whose descriptor byte has m = 15
NegativeDescriptor ==
    /\ dresult # "None"
    /\ dstart + 2 <= Len(stream)
    /\ At(0) = 16
    /\ At(1) >= 240

\* C25: a descriptor byte with m = 15 (0xF0 .. 0xFF) decodes to a
\* NegativeLiteral operand whose value is the byte read as a signed 8-bit
\* integer, -16 .. -1, and no byte after the descriptor is consumed.
C25_NegativeLiteral ==
    NegativeDescriptor =>
        /\ dresult = "Ok"
        /\ ir.operands[1].mode = "NegativeLiteral"
        /\ ir.operands[1].register = <<>>
        /\ ir.operands[1].embedded = At(1)
        /\ Operand_fmt(ir.operands[1]) = <<38, 45>> \o Dec(256 - At(1))
        /\ 256 - At(1) \in 1..16
        /\ byte_size(ir.operands[1]) = 1
        /\ dpos = dstart + 2

\* SAVE with the descriptor 0xF0 in front of four more bytes: the operand is
\* printed as "&-16" and the four bytes are not consumed
C25_Witness ==
    /\ NegativeDescriptor
    /\ At(1) = 240
    /\ Len(stream) = dstart + 6
    /\ Operand_fmt(ir.operands[1]) = <<38, 45, 49, 54>>
    /\ dpos = dstart + 2

----------------------------------------------------------------------------
(* C26: the rows of dump_section_data                                        *)

\* dump_section_data was called for a section that has data
DataDumped ==
    /\ call.op = "dump_section_data"
    /\ ~InvalidIndex
    /\ Len(container[1].sections[call.arg + 1].data) >= 1

DumpedData == container[1].sections[call.arg + 1].data

\* ceil(size / 16)
RowCount(size) == (size + 15) \div 16

\* the number of bytes in row r (from 1) of size bytes
BytesInRow(size, r) == IF r < RowCount(size) THEN 16 ELSE size - 16 * (RowCount(size) - 1)

\* the columns of a row: 20 of address, 50 of hex area, "  | ", 16 of text, " |"
HexArea(line) == SubSeq(line, 21, 70)

TextColumn(line) == SubSeq(line, 75, 90)

\* the hex area of n bytes laid out as in a full row: a cell of three columns
\* for each of 16 positions, blank beyond the n-th, and the gap of two after
\* the eighth position
LaidOut(bytes) ==
    Concat([c \in 1..16 |->
               (IF c <= Len(bytes) THEN Hex(bytes[c], 2) \o <<32>> ELSE <<32, 32, 32>>)
               \o (IF c = 8 THEN <<32, 32>> ELSE <<>>)])

\* every row printed has the layout of a full row and shows its own bytes
RowsAligned ==
    \A r \in 1..(Len(call.out.lines) - 1) :
        LET line == call.out.lines[r + 1]
            n == BytesInRow(Len(DumpedData), r)
            bytes == SubSeq(DumpedData, 16 * (r - 1) + 1, 16 * (r - 1) + n)
        IN  /\ Len(line) = 92
            /\ HexArea(line) = LaidOut(bytes)
            /\ SubSeq(line, 71, 74) = <<32, 32, 124, 32>>
            /\ TextColumn(line)
                   = [x \in 1..16 |->
                         IF x <= n
                         THEN (IF bytes[x] >= 32 /\ bytes[x] < 127 THEN bytes[x] ELSE 46)
                         ELSE 32]
            /\ SubSeq(line, 91, 92) = <<32, 124>>

\* C26: for every section with size >= 1 dump_section_data prints
\* ceil(size / 16) rows; every row, a short last row included, has a hex area
\* of the same width, the last row being padded with 16 - ((size - 1) mod 16)
\* - 1 blank cells (and the mid-row gap when fewer than 8 bytes were
\* printed); the text column shows the n bytes of the row, '.' for those
\* outside [0x20, 0x7f), and 16 - n blanks.
C26_AsStated ==
    DataDumped =>
        /\ Len(call.out.lines) = 1 + RowCount(Len(DumpedData))
        /\ RowsAligned

\* C26 for the calls that return: the rows are ceil(size / 16) and aligned;
\* and the rows printed before a fault are aligned too
C26_RowsWhenOk ==
    DataDumped =>
        /\ call.out.outcome = "Ok" => Len(call.out.lines) = 1 + RowCount(Len(DumpedData))
        /\ Len(call.out.lines) <= 1 + RowCount(Len(DumpedData))
        /\ RowsAligned

\* 33 bytes at 0xfffffff0 in a build that checks the sum: one row of three
C26_PanicWitness ==
    /\ DataDumped
    /\ Len(DumpedData) = 33
    /\ call.out.outcome = "Panic"
    /\ Len(call.out.lines) = 2

\* 9 bytes printed in one short row: seven blank cells after them, and in
\* the text column '.' for 0x1f, 0x7f, 0xff and 0x00
C26_ShortRowWitness ==
    /\ DataDumped
    /\ Len(DumpedData) = 9
    /\ call.out.outcome = "Ok"
    /\ Len(call.out.lines) = 2
    /\ TextColumn(call.out.lines[2])
           = <<46, 32, 126, 46, 65, 46, 46, 97, 46, 32, 32, 32, 32, 32, 32, 32>>
    /\ SubSeq(call.out.lines[2], 50, 70) = Repeat(32, 21)

----------------------------------------------------------------------------
(* C27: the byte dump of the instruction listing                             *)

\* the bytes of the instruction decoded last, as they are in the stream
InstructionBytes == SubSeq(stream, dstart + 1, dpos)

\* "xx xx xx": two digits for each byte, a blank between
SpaceSeparated(bytes) ==
    Concat([k \in 1..Len(bytes) |->
               (IF k > 1 THEN <<32>> ELSE <<>>) \o Hex(bytes[k], 2)])

\* the byte dump fits the column it is padded to
Fits == Len(SpaceSeparated(InstructionBytes)) <= DUMP_WIDTH

\* the dump starts with the bytes, blank-separated, and is as wide as the
\* column: the separator that follows is at the same place on every line
DumpInColumn ==
    LET text == SpaceSeparated(InstructionBytes)
        dump == Instruction_fmt(ir).dump
    IN  /\ Len(dump) = DUMP_WIDTH
        /\ SubSeq(dump, 1, Len(text)) = text
        /\ SubSeq(dump, Len(text) + 1, DUMP_WIDTH) = Repeat(32, DUMP_WIDTH - Len(text))

\* C27: the listing prints every byte of the instruction, opcode bytes and
\* operand bytes, as blank-separated two-digit values, and the '|' is at one
\* fixed column for every instruction whose byte dump fits in that column,
\* for one-byte opcodes and for the two-byte opcodes that start with 0x30.
C27_AsStated == (dresult = "Ok" /\ Fits) => DumpInColumn

\* C27 for the one-byte opcodes
C27_OneByteOpcodes == (dresult = "Ok" /\ Fits /\ ir.opcode < 256) => DumpInColumn

\* MVERNO, 30 09, is listed as "3009" and 28 blanks: the two opcode bytes
\* are not separated and the dump is two columns wider than the others
C27_HalfwordWitness ==
    /\ dresult = "Ok"
    /\ InstructionBytes = <<48, 9>>
    /\ Instruction_fmt(ir).dump = <<51, 48, 48, 57>> \o Repeat(32, 28)
    /\ Instruction_fmt(ir).name = "MVERNO"
    /\ Instruction_fmt(ir).tail = Repeat(32, 4)

\* a one-byte opcode with two operands, of three bytes and of one, in column
C27_OneByteWitness ==
    /\ dresult = "Ok"
    /\ InstructionBytes = <<4, 175, 52, 18, 64>>
    /\ DumpInColumn
    /\ Len(Instruction_fmt(ir).tail) > 6

----------------------------------------------------------------------------
(* C28: the carry state of read_symbol_table                                 *)

\* a record was read while is_aux was true
AuxiliaryRead == is_aux /\ Len(symbols') = Len(symbols) + 1

\* C28: at the start of every record is_aux is true if and only if the counter
\* of the auxiliary records still due is greater than 0; the counter is
\* decremented only while it is positive; and a record read while is_aux is
\* true is stored as Auxiliary, takes the counter down by one and leaves the
\* parent class as it was, whatever its bytes are.
C28_CarryState ==
    [][/\ is_aux' <=> aux_index' > 0
       /\ AuxiliaryRead =>
             /\ aux_index > 0
             /\ symbols'[Len(symbols')].kind = "Auxiliary"
             /\ aux_index' = aux_index - 1
             /\ sclass' = sclass]_vars

\* the first of two auxiliary records was read; its bytes are those of a
\* ".file" primary that declares an auxiliary record itself
C28_Witness ==
    /\ pc = "symbol_records" /\ result = "None"
    /\ Len(symbols) = 2
    /\ symbols[1].kind = "Primary" /\ symbols[1].n_numaux = 2
    /\ symbols[2].kind = "Auxiliary"
    /\ SubSeq(buf, header[1].symbol_table_offset + SYMBOL_LEN + 1,
              header[1].symbol_table_offset + 2 * SYMBOL_LEN) = SymTemplate(2)
    /\ is_aux /\ aux_index = 1
    /\ sclass = symbols[1].storage_class

----------------------------------------------------------------------------
(* C29: runs of override descriptors                                         *)

\* the length of the run of override descriptors after the opcode of SAVE
RunLength == IF FirstPlain(2) = 0 THEN Len(stream) - 1 ELSE FirstPlain(2) - 2

\* SAVE decoded with the run taken out of the stream
WithoutRun ==
    decode_instruction(<<16>> \o SubSeq(stream, FirstPlain(2), Len(stream)), 0, NewDecoder)

\* C29: decoding a descriptor operand ends for every run of override
\* descriptors: each override consumes one byte, the run ends with the first
\* descriptor that is no override, decoded as it is without the run (Ok or
\* ParseError), or with the I/O error when the stream ends; and the operand's
\* expanded_type is the type the last override of the run selects.
C29_OverrideRuns ==
    SaveFirst =>
        /\ FirstPlain(2) = 0 => (dresult = "IoError" /\ dpos = Len(stream))
        /\ FirstPlain(2) # 0 =>
              /\ dresult = WithoutRun.res
              /\ dresult \in {"Ok", "Parse"} => dpos = WithoutRun.pos + RunLength
              /\ dresult = "IoError" => dpos \in {WithoutRun.pos + RunLength, Len(stream)}
              /\ dresult = "Ok" =>
                    /\ ir.operands[1].mode = WithoutRun.ir.operands[1].mode
                    /\ ir.operands[1].register = WithoutRun.ir.operands[1].register
                    /\ ir.operands[1].embedded = WithoutRun.ir.operands[1].embedded
        /\ RunLength > 0 =>
              ir.operands[1].expanded_type = <<OverrideType(stream[1 + RunLength])>>
        /\ RunLength = 0 => ir.operands[1].expanded_type = <<>>

\* a run of 32 overrides, more than the operand records, before a word
\* immediate: Ok, 38 bytes consumed, expanded type Word
C29_Witness ==
    /\ SaveFirst
    /\ RunLength = MaxPrefix
    /\ dresult = "Ok"
    /\ dpos = MaxPrefix + 6
    /\ ir.operands[1].mode = "WordImmediate"
    /\ ir.operands[1].expanded_type = <<"Word">>

\* a run of three different overrides that the end of the stream cuts short
C29_EndWitness ==
    /\ SaveFirst
    /\ stream = <<16, 228, 224, 231>>
    /\ dresult = "IoError"
    /\ ir.operands[1].expanded_type = <<"SByte">>

\* a run that ends with an illegal descriptor
C29_ParseWitness ==
    /\ SaveFirst
    /\ RunLength = 2
    /\ stream[2] # stream[3]
    /\ dresult = "Parse"
    /\ dpos = 4

----------------------------------------------------------------------------
(* C30: the instruction record after an error                                *)

\* the fields decode_instruction stores when it succeeds
Heading(rec) ==
    [opcode |-> rec.opcode, name |-> rec.name, data_type |-> rec.data_type,
     operand_count |-> rec.operand_count]

\* C30: when decode_instruction returns an error, ParseError or the I/O
\* error, the record keeps the opcode, name, data_type and operand_count it
\* had, those of the last instruction decoded with success or the initial
\* opcode 0, name "???", operand_count 0; only operand slots can have changed.
C30_HeadingKept ==
    [][dresult' \in {"Parse", "IoError"} =>
          /\ Heading(ir') = Heading(ir)
          /\ dstart' = 0 => Heading(ir') = Heading(NewDecoder)]_vars

\* the second instruction of a stream failed after its first operand slot was
\* written: the record still names the first instruction, with an operand that
\* is not the one the first instruction left
C30_Witness ==
    /\ dresult = "IoError"
    /\ dstart > 0 /\ dstart < Len(stream)
    /\ Heading(ir) = Heading(decode_instruction(stream, 0, NewDecoder).ir)
    /\ ir.opcode # stream[dstart + 1]
    /\ ir.operands[1] # decode_instruction(stream, 0, NewDecoder).ir.operands[1]

\* the first instruction of a stream failed with ParseError behind an operand:
\* opcode 0, name "???", and a first operand slot that was written
C30_InitialWitness ==
    /\ dresult = "Parse"
    /\ dstart = 0
    /\ dpos > 1
    /\ ir.name = "???" /\ ir.opcode = 0 /\ ir.operand_count = 0
    /\ ir.operands[1] # NewOperand

====
